---- MODULE Spec2Model ----
(***************************************************************************)
(* SCP03 secure channel of yubihsm-rs (src/src/session/securechannel) and  *)
(* the message structures it produces and consumes (src/src/session/       *)
(* message.rs).  Two SecureChannel values are modelled: the host's and the *)
(* card's (the mockhsm side).  Every public method of SecureChannel is an  *)
(* action; the messages a method receives are drawn from what is on the    *)
(* wire, altered in transit or not.                                        *)
(*                                                                         *)
(* Cryptography is symbolic.  A CMAC tag is the sequence of everything     *)
(* that was MACed into it (the chaining value it started from, then the    *)
(* key, code, length, session ID and data), so two tags are equal exactly  *)
(* when they were computed from the same inputs, and the all-zero value is *)
(* the empty sequence.  A key is a number, 0 being the all-zero key.       *)
(***************************************************************************)
EXTENDS Integers, Sequences, FiniteSets, TLC

\* ---------------------------------------------------------------- bounds

\* At most MaxChain C-MAC tags are chained into one chaining value.
MaxChain == 2

\* A channel's counter is incremented at most MaxAdvance times during a run.
MaxAdvance == 2

\* Runs start from a fresh pair of channels, or from a pair that has already
\* completed exchanges and stands NearLimit or fewer commands before the limit.
NearLimit == 1

\* A pair of channels that exchanges messages as they were sent sends at most
\* MaxExchanges commands after the handshake.
MaxExchanges == 3

\* A host that sends without waiting for responses MACs at most MaxPipelined
\* commands in a run, and each counter is incremented at most MaxPipelined
\* times.
MaxPipelined == 3

\* ------------------------------------------------------ program constants

MAX_COMMANDS_PER_SESSION == 1048576

MAX_MSG_SIZE == 2048

AES_BLOCK_SIZE == 16

MAC_SIZE == 8

CRYPTOGRAM_SIZE == 8

\* CommandCode bytes
Echo == 1

CreateSession == 3

AuthSession == 4

SessionMessage == 5

\* ResponseCode::Success(cmd).to_u8()
Success(cmd) == cmd + 128

\* Option<T>
NoneOpt == <<>>
Some(x) == <<x>>

Sides == {"host", "card"}

\* ------------------------------------------------------------------ data

\* Message data is a 6-tuple <<kind, length in bytes, ...>>:
\*   kind 0: a plain payload, numbered p
\*   kind 1: a cryptogram derived from a MAC key
\*   kind 2: an AES-128-CBC ciphertext: key, ICV counter, and the code and
\*           payload of the serialized inner message
\*   kind 4: the bytes themselves, a sequence of numbers in 0 .. 255
\* Payload 0 is empty, payload 1 is the 13 bytes "Hello, world!", payload 2 is
\* as long as CommandMessage::new allows
PayloadLen(p) == CASE p = 0 -> 0 [] p = 1 -> 13 [] OTHER -> MAX_MSG_SIZE

Plain(p) == <<0, PayloadLen(p), p, 0, 0, 0>>

Raw(bytes) == <<4, Len(bytes), bytes, 0, 0, 0>>

DataLen(d) == d[2]

\* ISO 7816 padding always adds between 1 and 16 bytes
PadLen(n) == AES_BLOCK_SIZE * ((n \div AES_BLOCK_SIZE) + 1)

\* Length of a serialized message without session ID and MAC: code, u16
\* length, data
SerializedLen(p) == 3 + PayloadLen(p)

Aes128Cbc_encrypt(key, counter, code, p) ==
    <<2, PadLen(SerializedLen(p)), key, counter, code, p>>

\* ----------------------------------------------------------- session keys

ZeroKey == 0

AuthKeys == {1, 2}

\* derive_key(auth_key half, derivation constant, context): the context is
\* the same for every channel of the model (both challenges are fixed)
derive_key(auth_key, derivation_constant) == auth_key * 8 + derivation_constant

\* ------------------------------------------------------------------- MAC

ZeroChain == <<>>

CMAC(key, chaining_value, code, length, session_id, data) ==
    Append(chaining_value, <<key, code, length, session_id, data>>)

\* Mac::from(tag) keeps the first MAC_SIZE bytes of the tag; distinct tags are
\* taken to have distinct truncations
Mac_from(tag) == tag

Mac_verify(mac, tag) == mac = Mac_from(tag)

\* A MAC altered in transit
FlipMac(mac) == Append(mac, <<-1, 0, 0, 0, Plain(0)>>)

\* -------------------------------------------------------------- messages

CommandMessage_new_with_mac(command_type, session_id, command_data, mac) ==
    IF DataLen(command_data) <= MAX_MSG_SIZE
    THEN [ok |-> TRUE,
          value |-> [session_id |-> Some(session_id),
                     data |-> command_data,
                     mac |-> Some(Mac_from(mac)),
                     command_type |-> command_type]]
    ELSE [ok |-> FALSE,
          value |-> [session_id |-> NoneOpt,
                     data |-> Plain(0),
                     mac |-> NoneOpt,
                     command_type |-> command_type]]

ResponseMessage_new(code, response_data) ==
    [code |-> code, session_id |-> NoneOpt, data |-> response_data, mac |-> NoneOpt]

ResponseMessage_new_with_mac(code, session_id, response_data, mac) ==
    [code |-> code,
     session_id |-> Some(session_id),
     data |-> response_data,
     mac |-> Some(Mac_from(mac))]

ResponseMessage_success(command_type, response_data) ==
    ResponseMessage_new(Success(command_type), response_data)

\* CommandMessage::len / ResponseMessage::len
MessageLen(m) ==
    DataLen(m.data)
    + (IF m.session_id # NoneOpt THEN 1 ELSE 0)
    + (IF m.mac # NoneOpt THEN MAC_SIZE ELSE 0)

U16(n) == n % 65536

\* ------------------------------------------------------------- the channel

SecureChannel_new(id, auth_key) ==
    [id |-> id,
     counter |-> 0,
     security_level |-> "None",
     enc_key |-> derive_key(auth_key, 4),
     mac_key |-> derive_key(auth_key, 6),
     rmac_key |-> derive_key(auth_key, 7),
     mac_chaining_value |-> ZeroChain]

host_cryptogram(ch) == <<1, CRYPTOGRAM_SIZE, ch.mac_key, 0, 0, 0>>

\* Two variants of terminate against which the properties of a Terminated
\* channel are tried: one forgets the R-MAC key, one wipes the chaining value
\* as well
terminate_keeps_rmac(ch) ==
    [ch EXCEPT !.security_level = "Terminated",
               !.enc_key = ZeroKey,
               !.mac_key = ZeroKey]

terminate_wipes_chain(ch) ==
    [ch EXCEPT !.security_level = "Terminated",
               !.enc_key = ZeroKey,
               !.mac_key = ZeroKey,
               !.rmac_key = ZeroKey,
               !.mac_chaining_value = ZeroChain]

terminate(ch) ==
    [ch EXCEPT !.security_level = "Terminated",
               !.enc_key = ZeroKey,
               !.mac_key = ZeroKey,
               !.rmac_key = ZeroKey]

increment_counter(ch) == [ch EXCEPT !.counter = @ + 1]

\* What a method call leaves behind: the channel, the Result (or "panic" when
\* an assertion, unwrap or expect aborts the call), the message it returns when
\* it returns one, and for the decrypt methods the inner message <<code, payload>>
Ret(ch, result, out, inner) ==
    [ch |-> ch, result |-> result, out |-> out, inner |-> inner]

Panic(ch) == Ret(ch, "panic", NoneOpt, NoneOpt)

Fail(ch, kind) == Ret(ch, kind, NoneOpt, NoneOpt)

\* Variants of command_with_mac, each wrong in one respect, against which the
\* properties of sending are tried: one allows one command more, one reports
\* the exceeded limit and keeps the session open, one emits the command and
\* keeps the old chaining value
command_with_mac_off_by_one(ch, command_type, command_data) ==
    IF ch.counter > MAX_COMMANDS_PER_SESSION
    THEN Fail(terminate(ch), "CommandLimitExceeded")
    ELSE LET tag == CMAC(ch.mac_key, ch.mac_chaining_value, command_type,
                         U16(1 + DataLen(command_data) + MAC_SIZE), ch.id,
                         command_data)
             ch2 == [ch EXCEPT !.mac_chaining_value = tag]
             msg == CommandMessage_new_with_mac(command_type, ch.id, command_data, tag)
         IN  IF msg.ok
             THEN Ret(ch2, "Ok", Some(msg.value), NoneOpt)
             ELSE Fail(ch2, "ProtocolError")

command_with_mac_limit_keeps_open(ch, command_type, command_data) ==
    IF ch.counter >= MAX_COMMANDS_PER_SESSION
    THEN Fail(ch, "CommandLimitExceeded")
    ELSE LET tag == CMAC(ch.mac_key, ch.mac_chaining_value, command_type,
                         U16(1 + DataLen(command_data) + MAC_SIZE), ch.id,
                         command_data)
             ch2 == [ch EXCEPT !.mac_chaining_value = tag]
             msg == CommandMessage_new_with_mac(command_type, ch.id, command_data, tag)
         IN  IF msg.ok
             THEN Ret(ch2, "Ok", Some(msg.value), NoneOpt)
             ELSE Fail(ch2, "ProtocolError")

command_with_mac_keeps_chain(ch, command_type, command_data) ==
    IF ch.counter >= MAX_COMMANDS_PER_SESSION
    THEN Fail(terminate(ch), "CommandLimitExceeded")
    ELSE LET tag == CMAC(ch.mac_key, ch.mac_chaining_value, command_type,
                         U16(1 + DataLen(command_data) + MAC_SIZE), ch.id,
                         command_data)
             msg == CommandMessage_new_with_mac(command_type, ch.id, command_data, tag)
         IN  IF msg.ok
             THEN Ret(ch, "Ok", Some(msg.value), NoneOpt)
             ELSE Fail(ch, "ProtocolError")

\* command_with_mac putting the session ID after the channel's on the command
command_with_mac_next_id(ch, command_type, command_data) ==
    IF ch.counter >= MAX_COMMANDS_PER_SESSION
    THEN Fail(terminate(ch), "CommandLimitExceeded")
    ELSE LET tag == CMAC(ch.mac_key, ch.mac_chaining_value, command_type,
                         U16(1 + DataLen(command_data) + MAC_SIZE), ch.id,
                         command_data)
             ch2 == [ch EXCEPT !.mac_chaining_value = tag]
             msg == CommandMessage_new_with_mac(command_type, ch.id + 1,
                                                command_data, tag)
         IN  IF msg.ok
             THEN Ret(ch2, "Ok", Some(msg.value), NoneOpt)
             ELSE Fail(ch2, "ProtocolError")

\* command_with_mac that leaves the MAC out of the length it MACs
command_with_mac_data_length(ch, command_type, command_data) ==
    IF ch.counter >= MAX_COMMANDS_PER_SESSION
    THEN Fail(terminate(ch), "CommandLimitExceeded")
    ELSE LET tag == CMAC(ch.mac_key, ch.mac_chaining_value, command_type,
                         U16(1 + DataLen(command_data)), ch.id,
                         command_data)
             ch2 == [ch EXCEPT !.mac_chaining_value = tag]
             msg == CommandMessage_new_with_mac(command_type, ch.id, command_data, tag)
         IN  IF msg.ok
             THEN Ret(ch2, "Ok", Some(msg.value), NoneOpt)
             ELSE Fail(ch2, "ProtocolError")

command_with_mac(ch, command_type, command_data) ==
    IF ch.counter >= MAX_COMMANDS_PER_SESSION
    THEN Fail(terminate(ch), "CommandLimitExceeded")
    ELSE LET tag == CMAC(ch.mac_key, ch.mac_chaining_value, command_type,
                         U16(1 + DataLen(command_data) + MAC_SIZE), ch.id,
                         command_data)
             ch2 == [ch EXCEPT !.mac_chaining_value = tag]
             msg == CommandMessage_new_with_mac(command_type, ch.id, command_data, tag)
         IN  IF msg.ok
             THEN Ret(ch2, "Ok", Some(msg.value), NoneOpt)
             ELSE Fail(ch2, "ProtocolError")

authenticate_session(ch) ==
    IF ch.security_level # "None" \/ ch.mac_chaining_value # ZeroChain
    THEN Panic(ch)
    ELSE command_with_mac(ch, AuthSession, host_cryptogram(ch))

\* finish_authenticate_session setting the counter before it looks at the data
finish_authenticate_session_counts_first(ch, response) ==
    IF DataLen(response.data) # 0
    THEN Fail(terminate([ch EXCEPT !.counter = 1]), "ProtocolError")
    ELSE Ret([ch EXCEPT !.security_level = "Authenticated", !.counter = 1],
             "Ok", NoneOpt, NoneOpt)

finish_authenticate_session(ch, response) ==
    IF DataLen(response.data) # 0
    THEN Fail(terminate(ch), "ProtocolError")
    ELSE Ret([ch EXCEPT !.security_level = "Authenticated", !.counter = 1],
             "Ok", NoneOpt, NoneOpt)

encrypt_command(ch, code, p) ==
    IF ch.security_level # "Authenticated"
    THEN Panic(ch)
    ELSE command_with_mac(ch, SessionMessage,
                          Aes128Cbc_encrypt(ch.enc_key, ch.counter, code, p))

\* Two variants of verify_response_mac, each wrong in one respect, against
\* which the properties of the R-MAC check are tried: one reports an R-MAC
\* mismatch and keeps the session open, one checks the R-MAC before it
\* compares the session ID
verify_response_mac_keeps_open(ch, response) ==
    IF ch.security_level # "Authenticated" THEN Panic(ch)
    ELSE IF response.session_id = NoneOpt THEN Fail(terminate(ch), "ProtocolError")
    ELSE IF ch.id # response.session_id[1] THEN Fail(terminate(ch), "MismatchError")
    ELSE IF response.mac = NoneOpt THEN Panic(ch)
    ELSE IF ~Mac_verify(response.mac[1],
                        CMAC(ch.rmac_key, ch.mac_chaining_value, response.code,
                             U16(MessageLen(response)), response.session_id[1],
                             response.data))
         THEN Fail(ch, "VerifyFailed")
    ELSE Ret(increment_counter(ch), "Ok", NoneOpt, NoneOpt)

\* A third variant counts the response before it checks its R-MAC
verify_response_mac_counts_first(ch, response) ==
    IF ch.security_level # "Authenticated" THEN Panic(ch)
    ELSE IF response.session_id = NoneOpt THEN Fail(terminate(ch), "ProtocolError")
    ELSE IF ch.id # response.session_id[1] THEN Fail(terminate(ch), "MismatchError")
    ELSE IF response.mac = NoneOpt THEN Panic(ch)
    ELSE IF ~Mac_verify(response.mac[1],
                        CMAC(ch.rmac_key, ch.mac_chaining_value, response.code,
                             U16(MessageLen(response)), response.session_id[1],
                             response.data))
         THEN Fail(terminate(increment_counter(ch)), "VerifyFailed")
    ELSE Ret(increment_counter(ch), "Ok", NoneOpt, NoneOpt)

\* A fourth variant computes the R-MAC over a zero chaining value
verify_response_mac_unchained(ch, response) ==
    IF ch.security_level # "Authenticated" THEN Panic(ch)
    ELSE IF response.session_id = NoneOpt THEN Fail(terminate(ch), "ProtocolError")
    ELSE IF ch.id # response.session_id[1] THEN Fail(terminate(ch), "MismatchError")
    ELSE IF response.mac = NoneOpt THEN Panic(ch)
    ELSE IF ~Mac_verify(response.mac[1],
                        CMAC(ch.rmac_key, ZeroChain, response.code,
                             U16(MessageLen(response)), response.session_id[1],
                             response.data))
         THEN Fail(terminate(ch), "VerifyFailed")
    ELSE Ret(increment_counter(ch), "Ok", NoneOpt, NoneOpt)

verify_response_mac_mac_first(ch, response) ==
    IF ch.security_level # "Authenticated" THEN Panic(ch)
    ELSE IF response.session_id = NoneOpt THEN Fail(terminate(ch), "ProtocolError")
    ELSE IF response.mac = NoneOpt THEN Panic(ch)
    ELSE IF ~Mac_verify(response.mac[1],
                        CMAC(ch.rmac_key, ch.mac_chaining_value, response.code,
                             U16(MessageLen(response)), response.session_id[1],
                             response.data))
         THEN Fail(terminate(ch), "VerifyFailed")
    ELSE IF ch.id # response.session_id[1] THEN Fail(terminate(ch), "MismatchError")
    ELSE Ret(increment_counter(ch), "Ok", NoneOpt, NoneOpt)

verify_response_mac(ch, response) ==
    IF ch.security_level # "Authenticated" THEN Panic(ch)
    ELSE IF response.session_id = NoneOpt THEN Fail(terminate(ch), "ProtocolError")
    ELSE IF ch.id # response.session_id[1] THEN Fail(terminate(ch), "MismatchError")
    ELSE IF response.mac = NoneOpt THEN Panic(ch)
    ELSE IF ~Mac_verify(response.mac[1],
                        CMAC(ch.rmac_key, ch.mac_chaining_value, response.code,
                             U16(MessageLen(response)), response.session_id[1],
                             response.data))
         THEN Fail(terminate(ch), "VerifyFailed")
    ELSE Ret(increment_counter(ch), "Ok", NoneOpt, NoneOpt)

\* ------------------------------------------------------ decrypt and parse

\* has_session_id / has_rmac of message.rs, on response code bytes
has_session_id(code) == code \in {Success(CreateSession), Success(SessionMessage)}

has_rmac(code) == code = Success(SessionMessage)

\* First byte of a non-empty payload: payload 1 is "Hello, world!", the larger
\* ones repeat it
PayloadFirstByte(p) == 72

MAX_SESSION_ID == 15

\* ResponseMessage::parse on the bytes of a serialized response that was built
\* without session ID and MAC: whether it returns Ok.  A code that carries a
\* session ID takes it from the first data byte.
ResponseMessage_parse_ok(code, p) ==
    IF has_session_id(code)
    THEN /\ PayloadLen(p) > 0
         /\ PayloadFirstByte(p) <= MAX_SESSION_ID
         /\ (has_rmac(code) => PayloadLen(p) - 1 >= MAC_SIZE)
    ELSE TRUE

\* CommandMessage::parse, likewise
CommandMessage_parse_ok(code, p) ==
    IF code \in {AuthSession, SessionMessage}
    THEN /\ PayloadLen(p) > 0
         /\ PayloadFirstByte(p) <= MAX_SESSION_ID
         /\ PayloadLen(p) - 1 >= MAC_SIZE
    ELSE TRUE

\* Aes128Cbc::decrypt_pad of `data` under `key` with the ICV of `counter`:
\* "plain" when data is a ciphertext made under the same key and ICV. Anything
\* else decrypts to noise: "pad" when unpadding fails, "parse" when it succeeds
\* and leaves bytes that are no message.  Which of the two happens depends on
\* the bytes, so the caller chooses (garble), except where the length decides:
\* data that is empty or no multiple of the block size cannot be unpadded, and
\* under the right key with a wrong ICV only the first block is noise, so a
\* ciphertext of two or more blocks keeps its padding.
decrypt_pad(key, counter, data, garble) ==
    IF data[1] = 2 /\ data[3] = key /\ data[4] = counter THEN "plain"
    ELSE IF DataLen(data) = 0 \/ DataLen(data) % AES_BLOCK_SIZE # 0 THEN "pad"
    ELSE IF data[1] = 2 /\ data[3] = key /\ DataLen(data) > AES_BLOCK_SIZE THEN "parse"
    ELSE garble

Garbles == {"pad", "parse"}

\* decrypt_response taking the counter for the ICV after verify_response_mac
\* has incremented it
decrypt_response_icv_after(ch, encrypted_response, garble) ==
    IF ch.security_level # "Authenticated" THEN Panic(ch)
    ELSE LET v == verify_response_mac(ch, encrypted_response)
             icv_counter == v.ch.counter
             d == encrypted_response.data
             how == decrypt_pad(v.ch.enc_key, icv_counter, d, garble)
         IN  IF v.result # "Ok" THEN v
             ELSE IF how = "pad" THEN Fail(terminate(v.ch), "ProtocolError")
             ELSE IF how = "parse" \/ ~ResponseMessage_parse_ok(d[5], d[6])
                  THEN Fail(v.ch, "ProtocolError")
             ELSE Ret(v.ch, "Ok", NoneOpt, Some(<<d[5], d[6]>>))

\* decrypt_response decrypting whatever it is given, and returning the
\* plaintext along with the error of verify_response_mac
decrypt_response_unverified(ch, encrypted_response, garble) ==
    IF ch.security_level # "Authenticated" THEN Panic(ch)
    ELSE LET icv_counter == ch.counter
             v == verify_response_mac(ch, encrypted_response)
             d == encrypted_response.data
             how == decrypt_pad(ch.enc_key, icv_counter, d, garble)
         IN  IF how = "pad" THEN Fail(terminate(v.ch), "ProtocolError")
             ELSE IF how = "parse" \/ ~ResponseMessage_parse_ok(d[5], d[6])
                  THEN Fail(v.ch, "ProtocolError")
             ELSE Ret(v.ch, v.result, NoneOpt, Some(<<d[5], d[6]>>))

decrypt_response(ch, encrypted_response, garble) ==
    IF ch.security_level # "Authenticated" THEN Panic(ch)
    ELSE LET icv_counter == ch.counter
             v == verify_response_mac(ch, encrypted_response)
             d == encrypted_response.data
             how == decrypt_pad(v.ch.enc_key, icv_counter, d, garble)
         IN  IF v.result # "Ok" THEN v
             ELSE IF how = "pad" THEN Fail(terminate(v.ch), "ProtocolError")
             ELSE IF how = "parse" \/ ~ResponseMessage_parse_ok(d[5], d[6])
                  THEN Fail(v.ch, "ProtocolError")
             ELSE Ret(v.ch, "Ok", NoneOpt, Some(<<d[5], d[6]>>))

\* The ResponseMessage that decrypt_response returns with Ok: the parsed
\* plaintext, with the session ID of the encrypted response put on it
DecryptedResponse(ch, encrypted_response, garble) ==
    LET r == decrypt_response(ch, encrypted_response, garble)
    IN  IF r.result = "Ok"
        THEN Some([ResponseMessage_new(r.inner[1][1], Plain(r.inner[1][2]))
                      EXCEPT !.session_id = encrypted_response.session_id])
        ELSE NoneOpt

\* ------------------------------------------------------------ device side

\* verify_command_mac without the assignment to mac_chaining_value
verify_command_mac_keeps_chain(ch, command) ==
    IF command.session_id = NoneOpt THEN Panic(ch)
    ELSE IF command.session_id[1] # ch.id THEN Panic(ch)
    ELSE LET tag == CMAC(ch.mac_key, ch.mac_chaining_value, command.command_type,
                         U16(MessageLen(command)), command.session_id[1],
                         command.data)
         IN  IF command.mac = NoneOpt THEN Panic(ch)
             ELSE IF ~Mac_verify(command.mac[1], tag)
                  THEN Fail(terminate(ch), "VerifyFailed")
             ELSE Ret(ch, "Ok", NoneOpt, NoneOpt)

verify_command_mac(ch, command) ==
    IF command.session_id = NoneOpt THEN Panic(ch)
    ELSE IF command.session_id[1] # ch.id THEN Panic(ch)
    ELSE LET tag == CMAC(ch.mac_key, ch.mac_chaining_value, command.command_type,
                         U16(MessageLen(command)), command.session_id[1],
                         command.data)
         IN  IF command.mac = NoneOpt THEN Panic(ch)
             ELSE IF ~Mac_verify(command.mac[1], tag)
                  THEN Fail(terminate(ch), "VerifyFailed")
             ELSE Ret([ch EXCEPT !.mac_chaining_value = tag], "Ok", NoneOpt, NoneOpt)

\* verify_authenticate_session without the check of the data length
verify_authenticate_session_any_length(ch, command) ==
    IF ch.security_level # "None" \/ ch.mac_chaining_value # ZeroChain
    THEN Panic(ch)
    ELSE IF host_cryptogram(ch) # command.data
    THEN Fail(terminate(ch), "VerifyFailed")
    ELSE LET v == verify_command_mac(ch, command)
         IN  IF v.result # "Ok" THEN v
             ELSE Ret([v.ch EXCEPT !.security_level = "Authenticated", !.counter = 1],
                      "Ok",
                      Some(ResponseMessage_success(AuthSession, Plain(0))),
                      NoneOpt)

verify_authenticate_session(ch, command) ==
    IF ch.security_level # "None" \/ ch.mac_chaining_value # ZeroChain
    THEN Panic(ch)
    ELSE IF DataLen(command.data) # CRYPTOGRAM_SIZE
    THEN Fail(terminate(ch), "ProtocolError")
    ELSE IF host_cryptogram(ch) # command.data
    THEN Fail(terminate(ch), "VerifyFailed")
    ELSE LET v == verify_command_mac(ch, command)
         IN  IF v.result # "Ok" THEN v
             ELSE Ret([v.ch EXCEPT !.security_level = "Authenticated", !.counter = 1],
                      "Ok",
                      Some(ResponseMessage_success(AuthSession, Plain(0))),
                      NoneOpt)

decrypt_command(ch, encrypted_command, garble) ==
    IF ch.security_level # "Authenticated" THEN Panic(ch)
    ELSE LET icv_counter == ch.counter
             v == verify_command_mac(ch, encrypted_command)
             d == encrypted_command.data
             how == decrypt_pad(v.ch.enc_key, icv_counter, d, garble)
         IN  IF v.result # "Ok" THEN v
             ELSE IF how = "pad" THEN Fail(terminate(v.ch), "ProtocolError")
             ELSE IF how = "parse" \/ ~CommandMessage_parse_ok(d[5], d[6])
                  THEN Fail(v.ch, "ProtocolError")
             ELSE Ret(v.ch, "Ok", NoneOpt, Some(<<d[5], d[6]>>))

\* response_with_mac without the call of increment_counter
response_with_mac_keeps_counter(ch, code, response_data) ==
    IF ch.security_level # "Authenticated" THEN Panic(ch)
    ELSE LET tag == CMAC(ch.rmac_key, ch.mac_chaining_value, code,
                         U16(1 + DataLen(response_data) + MAC_SIZE), ch.id,
                         response_data)
         IN  Ret(ch, "Ok",
                 Some(ResponseMessage_new_with_mac(code, ch.id, response_data, tag)),
                 NoneOpt)

\* response_with_mac taking the R-MAC tag as the new chaining value
response_with_mac_chains(ch, code, response_data) ==
    IF ch.security_level # "Authenticated" THEN Panic(ch)
    ELSE LET tag == CMAC(ch.rmac_key, ch.mac_chaining_value, code,
                         U16(1 + DataLen(response_data) + MAC_SIZE), ch.id,
                         response_data)
         IN  Ret(increment_counter([ch EXCEPT !.mac_chaining_value = tag]), "Ok",
                 Some(ResponseMessage_new_with_mac(code, ch.id, response_data, tag)),
                 NoneOpt)

response_with_mac(ch, code, response_data) ==
    IF ch.security_level # "Authenticated" THEN Panic(ch)
    ELSE LET tag == CMAC(ch.rmac_key, ch.mac_chaining_value, code,
                         U16(1 + DataLen(response_data) + MAC_SIZE), ch.id,
                         response_data)
         IN  Ret(increment_counter(ch), "Ok",
                 Some(ResponseMessage_new_with_mac(code, ch.id, response_data, tag)),
                 NoneOpt)

\* encrypt_response deriving the ICV from the counter that response_with_mac
\* leaves behind
encrypt_response_icv_after(ch, code, p) ==
    IF ch.security_level # "Authenticated" THEN Panic(ch)
    ELSE response_with_mac(ch, Success(SessionMessage),
                           Aes128Cbc_encrypt(ch.enc_key, ch.counter + 1, code, p))

encrypt_response(ch, code, p) ==
    IF ch.security_level # "Authenticated" THEN Panic(ch)
    ELSE response_with_mac(ch, Success(SessionMessage),
                           Aes128Cbc_encrypt(ch.enc_key, ch.counter, code, p))

\* ------------------------------------------------------ the codec on bytes
\*
\* message.rs on messages whose data are bytes (kind 4).  A constructor or a
\* parser returns [result, value]: "Ok" and Some(message), or the kind of the
\* error and no message.

ResultOk(m) == [result |-> "Ok", value |-> Some(m)]

ResultErr(kind) == [result |-> kind, value |-> NoneOpt]

\* The codes CommandCode::from_u8 knows; every other byte is an error
CloseSession == 64

CommandCodes == {Echo, CreateSession, AuthSession, SessionMessage, CloseSession}

\* ResponseCode::MemoryError, a code that is no Success code
MemoryError == 127

\* ResponseCode::from_u8 knows the Success codes of the commands and the
\* error codes, of which the model has one
ResponseCodes == {Success(c) : c \in CommandCodes} \cup {MemoryError}

\* BigEndian u16
WriteU16(n) == <<U16(n) \div 256, U16(n) % 256>>

ReadU16(hi, lo) == hi * 256 + lo

CommandMessage_new(command_type, command_data) ==
    IF DataLen(command_data) <= MAX_MSG_SIZE
    THEN ResultOk([session_id |-> NoneOpt,
                   data |-> command_data,
                   mac |-> NoneOpt,
                   command_type |-> command_type])
    ELSE ResultErr("ProtocolError")

\* A serializer that counts the session ID in the length and does not write it
MessageInto_without_id(code, m) ==
    <<code>>
    \o WriteU16(MessageLen(m))
    \o m.data[3]
    \o (IF m.mac # NoneOpt THEN m.mac[1] ELSE <<>>)

\* impl Into<Vec<u8>> for CommandMessage and for ResponseMessage: the code
\* byte, the length, the session ID if any, the data, the MAC if any
MessageInto(code, m) ==
    <<code>>
    \o WriteU16(MessageLen(m))
    \o (IF m.session_id # NoneOpt THEN <<m.session_id[1]>> ELSE <<>>)
    \o m.data[3]
    \o (IF m.mac # NoneOpt THEN m.mac[1] ELSE <<>>)

CommandMessage_into(m) == MessageInto(m.command_type, m)

ResponseMessage_into(m) == MessageInto(m.code, m)

\* CommandMessage::parse without the comparison of the length field with the
\* length of the frame
CommandMessage_parse_any_length(bytes) ==
    IF Len(bytes) < 3 THEN ResultErr("ProtocolError")
    ELSE IF bytes[1] \notin CommandCodes THEN ResultErr("ProtocolError")
    ELSE LET rest == SubSeq(bytes, 4, Len(bytes))
         IN  IF bytes[1] \in {AuthSession, SessionMessage}
             THEN IF rest = <<>> THEN ResultErr("ProtocolError")
                  ELSE IF rest[1] > MAX_SESSION_ID THEN ResultErr("ProtocolError")
                  ELSE IF Len(rest) - 1 < MAC_SIZE THEN ResultErr("ProtocolError")
                  ELSE ResultOk(
                           [session_id |-> Some(rest[1]),
                            data |-> Raw(SubSeq(rest, 2, Len(rest) - MAC_SIZE)),
                            mac |-> Some(SubSeq(rest, Len(rest) - MAC_SIZE + 1,
                                                Len(rest))),
                            command_type |-> bytes[1]])
             ELSE ResultOk([session_id |-> NoneOpt,
                            data |-> Raw(rest),
                            mac |-> NoneOpt,
                            command_type |-> bytes[1]])

\* CommandMessage::parse with the arm of the other commands for every code
CommandMessage_parse_plain(bytes) ==
    IF Len(bytes) < 3 THEN ResultErr("ProtocolError")
    ELSE IF bytes[1] \notin CommandCodes THEN ResultErr("ProtocolError")
    ELSE IF ReadU16(bytes[2], bytes[3]) + 3 # Len(bytes) THEN ResultErr("ProtocolError")
    ELSE ResultOk([session_id |-> NoneOpt,
                   data |-> Raw(SubSeq(bytes, 4, Len(bytes))),
                   mac |-> NoneOpt,
                   command_type |-> bytes[1]])

CommandMessage_parse(bytes) ==
    IF Len(bytes) < 3 THEN ResultErr("ProtocolError")
    ELSE IF bytes[1] \notin CommandCodes THEN ResultErr("ProtocolError")
    ELSE IF ReadU16(bytes[2], bytes[3]) + 3 # Len(bytes) THEN ResultErr("ProtocolError")
    ELSE LET rest == SubSeq(bytes, 4, Len(bytes))
         IN  IF bytes[1] \in {AuthSession, SessionMessage}
             THEN IF rest = <<>> THEN ResultErr("ProtocolError")
                  ELSE IF rest[1] > MAX_SESSION_ID THEN ResultErr("ProtocolError")
                  ELSE IF Len(rest) - 1 < MAC_SIZE THEN ResultErr("ProtocolError")
                  ELSE ResultOk(
                           [session_id |-> Some(rest[1]),
                            data |-> Raw(SubSeq(rest, 2, Len(rest) - MAC_SIZE)),
                            mac |-> Some(SubSeq(rest, Len(rest) - MAC_SIZE + 1,
                                                Len(rest))),
                            command_type |-> bytes[1]])
             ELSE ResultOk([session_id |-> NoneOpt,
                            data |-> Raw(rest),
                            mac |-> NoneOpt,
                            command_type |-> bytes[1]])

ResponseMessage_parse(bytes) ==
    IF Len(bytes) < 3 THEN ResultErr("ProtocolError")
    ELSE IF bytes[1] \notin ResponseCodes THEN ResultErr("ProtocolError")
    ELSE IF ReadU16(bytes[2], bytes[3]) + 3 # Len(bytes) THEN ResultErr("ProtocolError")
    ELSE LET rest == SubSeq(bytes, 4, Len(bytes))
             id == has_session_id(bytes[1])
             body == IF id THEN SubSeq(rest, 2, Len(rest)) ELSE rest
         IN  IF id /\ rest = <<>> THEN ResultErr("ProtocolError")
             ELSE IF id /\ rest[1] > MAX_SESSION_ID THEN ResultErr("ProtocolError")
             ELSE IF has_rmac(bytes[1]) /\ Len(body) < MAC_SIZE
                  THEN ResultErr("ProtocolError")
             ELSE ResultOk(
                      [code |-> bytes[1],
                       session_id |-> IF id THEN Some(rest[1]) ELSE NoneOpt,
                       data |-> Raw(IF has_rmac(bytes[1])
                                    THEN SubSeq(body, 1, Len(body) - MAC_SIZE)
                                    ELSE body),
                       mac |-> IF has_rmac(bytes[1])
                               THEN Some(SubSeq(body, Len(body) - MAC_SIZE + 1,
                                                Len(body)))
                               ELSE NoneOpt])

\* ----------------------------------------------------------- state machine

VARIABLES
    chan,           \* side -> its SecureChannel
    gone,           \* the sides whose channel is no longer in use: dropped, or
                    \* the thread that owned it panicked in a call.  A run ends
                    \* there: whatever the other channel could still do, it can
                    \* also do while this one is idle.
    command_wire,   \* the command the host emitted last, if any
    response_wire,  \* the response the card emitted last, if any
    last,           \* the call made last: side, method, result, inner message
    frame,          \* the bytes a message was serialized to, or that were received
    message,        \* the value a constructor or a conversion returned last
    cmacs,          \* side -> number of C-MAC tags the channel took as chaining value
    sent,           \* side -> number of MACed messages the channel emitted
    advances,       \* side -> number of times the channel's counter was incremented
    objects,        \* the device's store: slot <<id, type>> -> the object, if any
    options,        \* the device's audit options: tag -> the byte stored
    wrapped         \* the wrapped object the client exported last, if any

vars ==
    <<chan, gone, command_wire, response_wire, last, frame, message, cmacs, sent,
      advances, objects, options, wrapped>>

\* The part of the state that is the device's store and what the client keeps
\* of it
store == <<objects, options, wrapped>>

\* TEST_KEY_ID and TEST_EXPORTED_KEY_ID of the tests
ObjectIds == {100, 101}

ObjectTypes == {"Opaque", "AsymmetricKey", "WrapKey"}

Slots == ObjectIds \X ObjectTypes

\* The audit options: the force option and one option for each command, of
\* which the tests use Echo
OptionTags == {<<"force", 0>>, <<"command", Echo>>}

\* The session ID of both channels (create_channel_pair), and another one
CHANNEL_ID == 0

OTHER_ID == CHANNEL_ID + 1

\* Chaining value of a pair of channels that has completed exchanges before
\* the run begins: the tag of the last command of those exchanges, which
\* stands for all the tags chained into it
OldChain ==
    CMAC(derive_key(1, 6), ZeroChain, SessionMessage, 0, CHANNEL_ID, <<3, 0, 0, 0, 0, 0>>)

Established(counter) ==
    [SecureChannel_new(CHANNEL_ID, 1) EXCEPT !.counter = counter,
                                             !.security_level = "Authenticated",
                                             !.mac_chaining_value = OldChain]

StartCounters ==
    (MAX_COMMANDS_PER_SESSION - NearLimit) .. (MAX_COMMANDS_PER_SESSION - 1)

InitFresh ==
    \E auth_key \in AuthKeys :
        /\ chan = [side \in Sides |->
                     SecureChannel_new(CHANNEL_ID, IF side = "host" THEN auth_key ELSE 1)]
        /\ cmacs = [side \in Sides |-> 0]
        /\ sent = [side \in Sides |-> 0]

\* Both channels after the handshake and counter - 1 complete exchanges: the
\* host has MACed, and the card has verified, the AuthSession command and
\* counter - 1 session commands; the card has MACed counter - 1 responses
InitEstablished ==
    \E counter \in StartCounters :
        /\ chan = [side \in Sides |-> Established(counter)]
        /\ cmacs = [side \in Sides |-> counter]
        /\ sent = [side \in Sides |-> IF side = "host" THEN counter ELSE counter - 1]

InitRest ==
    /\ advances = [side \in Sides |-> 0]
    /\ gone = {}
    /\ command_wire = NoneOpt
    /\ response_wire = NoneOpt
    /\ last = [side |-> "none", op |-> "new", result |-> "Ok", inner |-> NoneOpt]
    /\ frame = <<>>
    /\ message = NoneOpt
    /\ objects = [slot \in Slots |-> NoneOpt]
    /\ options = [tag \in OptionTags |-> 0]
    /\ wrapped = NoneOpt

\* Messages as the receiver may see them: as sent, or altered in transit
AlterMac(m) == IF m.mac = NoneOpt THEN {} ELSE {[m EXCEPT !.mac = Some(FlipMac(@[1]))]}

Altered(m) ==
    {m,
     [m EXCEPT !.session_id = Some(OTHER_ID)],
     [m EXCEPT !.session_id = NoneOpt],
     [m EXCEPT !.mac = NoneOpt],
     [m EXCEPT !.data = IF DataLen(@) = 0 THEN Plain(1) ELSE Plain(0)]}
    \cup AlterMac(m)

ResponseInputs ==
    IF response_wire = NoneOpt THEN {} ELSE Altered(response_wire[1])

CommandInputs ==
    IF command_wire = NoneOpt THEN {} ELSE Altered(command_wire[1])

\* The messages that are encrypted, <<code, payload>>: an Echo of "Hello,
\* world!", an Echo of the largest payload, and a message whose code calls for
\* a session ID and a MAC that its serialization does not have
InnerCommands == {<<Echo, 1>>, <<Echo, 2>>, <<SessionMessage, 0>>}

\* Likewise for responses, which have no largest payload
InnerResponses == {<<Success(Echo), 1>>, <<Success(SessionMessage), 0>>}

\* The data that is MACed without encryption
PlainPayloads == {1}

\* The methods that set the counter to 1; the others that write it increment it
Handshake == {"finish_authenticate_session", "verify_authenticate_session"}

\* The call `op` on the channel of `side` returned r, in a run that chains at
\* most max_chain tags and increments a counter at most max_advance times
Step(side, op, r, max_chain, max_advance) ==
    /\ gone = {}
    /\ advances' = [advances EXCEPT ![side] =
                      IF op \notin Handshake /\ r.ch.counter = chan[side].counter + 1
                      THEN @ + 1 ELSE @]
    /\ advances'[side] <= max_advance
    /\ chan' = [chan EXCEPT ![side] = r.ch]
    /\ last' = [side |-> side, op |-> op, result |-> r.result, inner |-> r.inner]
    /\ cmacs' = [cmacs EXCEPT ![side] =
                   IF r.ch.mac_chaining_value # chan[side].mac_chaining_value
                   THEN @ + 1 ELSE @]
    /\ Len(r.ch.mac_chaining_value) <= max_chain
    /\ sent' = [sent EXCEPT ![side] =
                  IF r.out # NoneOpt /\ r.out[1].mac # NoneOpt THEN @ + 1 ELSE @]
    /\ gone' = IF r.result = "panic" THEN gone \cup {side} ELSE gone
    /\ UNCHANGED <<frame, message, store>>

Call(side, op, r) == Step(side, op, r, MaxChain, MaxAdvance)

HostCall(op, r) ==
    /\ Call("host", op, r)
    /\ command_wire' = IF r.out # NoneOpt THEN r.out ELSE command_wire
    /\ UNCHANGED response_wire

CardCall(op, r) ==
    /\ Call("card", op, r)
    /\ response_wire' = IF r.out # NoneOpt THEN r.out ELSE response_wire
    /\ UNCHANGED command_wire

CommandWithMac ==
    \E p \in PlainPayloads :
        HostCall("command_with_mac", command_with_mac(chan["host"], SessionMessage, Plain(p)))

AuthenticateSession ==
    HostCall("authenticate_session", authenticate_session(chan["host"]))

FinishAuthenticateSession ==
    \E response \in ResponseInputs :
        HostCall("finish_authenticate_session",
                 finish_authenticate_session(chan["host"], response))

EncryptCommand ==
    \E m \in InnerCommands :
        HostCall("encrypt_command", encrypt_command(chan["host"], m[1], m[2]))

DecryptResponse ==
    \E response \in ResponseInputs, garble \in Garbles :
        HostCall("decrypt_response", decrypt_response(chan["host"], response, garble))

VerifyResponseMac ==
    \E response \in ResponseInputs :
        HostCall("verify_response_mac", verify_response_mac(chan["host"], response))

VerifyAuthenticateSession ==
    \E command \in CommandInputs :
        CardCall("verify_authenticate_session",
                 verify_authenticate_session(chan["card"], command))

DecryptCommand ==
    \E command \in CommandInputs, garble \in Garbles :
        CardCall("decrypt_command", decrypt_command(chan["card"], command, garble))

VerifyCommandMac ==
    \E command \in CommandInputs :
        CardCall("verify_command_mac", verify_command_mac(chan["card"], command))

EncryptResponse ==
    \E m \in InnerResponses :
        CardCall("encrypt_response", encrypt_response(chan["card"], m[1], m[2]))

ResponseWithMac ==
    \E p \in PlainPayloads :
        CardCall("response_with_mac",
                 response_with_mac(chan["card"], Success(SessionMessage), Plain(p)))

\* impl Drop for SecureChannel
Drop ==
    \E side \in Sides :
        /\ gone = {}
        /\ gone' = gone \cup {side}
        /\ chan' = [chan EXCEPT ![side] = terminate(@)]
        /\ last' = [side |-> side, op |-> "drop", result |-> "Ok", inner |-> NoneOpt]
        /\ UNCHANGED <<command_wire, response_wire, frame, message, cmacs, sent,
                       advances, store>>

Next ==
    \/ AuthenticateSession
    \/ FinishAuthenticateSession
    \/ CommandWithMac
    \/ EncryptCommand
    \/ DecryptResponse
    \/ VerifyResponseMac
    \/ VerifyAuthenticateSession
    \/ DecryptCommand
    \/ VerifyCommandMac
    \/ EncryptResponse
    \/ ResponseWithMac
    \/ Drop

\* Two channels as SecureChannel::new leaves them
Init == InitFresh /\ InitRest

Spec == Init /\ [][Next]_vars

\* Two channels shortly before the command limit
InitNearLimit == InitEstablished /\ InitRest

SpecNearLimit == InitNearLimit /\ [][Next]_vars

\* ------------------------------------------- exchanges between a pair
\*
\* The two channels of tests::create_channel_pair used as happy_path_test uses
\* them: every message is received as it was sent, and each call follows the
\* call that produced its input.  After the handshake the host encrypts a
\* command, the card decrypts it, and either the card encrypts a response that
\* the host decrypts, or the command stays unanswered; then the host encrypts
\* the next command.  A run ends at the first call that fails.

ExchangeHost(op, r) ==
    /\ Step("host", op, r, 1 + MaxExchanges, MaxExchanges)
    /\ command_wire' = IF r.out # NoneOpt THEN r.out ELSE command_wire
    /\ UNCHANGED response_wire

ExchangeCard(op, r) ==
    /\ Step("card", op, r, 1 + MaxExchanges, MaxExchanges)
    /\ response_wire' = IF r.out # NoneOpt THEN r.out ELSE response_wire
    /\ UNCHANGED command_wire

\* The call made last was `op` and returned Ok
After(op) == last.op = op /\ last.result = "Ok"

\* The commands the host encrypts: those of InnerCommands and an Echo of
\* nothing
ExchangeCommands == InnerCommands \cup {<<Echo, 0>>}

\* The responses the card encrypts to the command <<code, payload>>: what
\* happy_path_test answers, or one of InnerResponses
ExchangeResponses(command) ==
    {<<Success(command[1]), command[2]>>} \cup InnerResponses

ExchangeAuthenticateSession ==
    /\ last.op = "new"
    /\ ExchangeHost("authenticate_session", authenticate_session(chan["host"]))

ExchangeVerifyAuthenticateSession ==
    /\ After("authenticate_session")
    /\ ExchangeCard("verify_authenticate_session",
                    verify_authenticate_session(chan["card"], command_wire[1]))

ExchangeFinishAuthenticateSession ==
    /\ After("verify_authenticate_session")
    /\ ExchangeHost("finish_authenticate_session",
                    finish_authenticate_session(chan["host"], response_wire[1]))

ExchangeEncryptCommand ==
    /\ \/ After("finish_authenticate_session")
       \/ After("decrypt_response")
       \/ After("decrypt_command")
    /\ \E m \in ExchangeCommands :
           ExchangeHost("encrypt_command", encrypt_command(chan["host"], m[1], m[2]))

ExchangeDecryptCommand ==
    /\ After("encrypt_command")
    /\ \E garble \in Garbles :
           ExchangeCard("decrypt_command",
                        decrypt_command(chan["card"], command_wire[1], garble))

ExchangeEncryptResponse ==
    /\ After("decrypt_command")
    /\ \E m \in ExchangeResponses(last.inner[1]) :
           ExchangeCard("encrypt_response", encrypt_response(chan["card"], m[1], m[2]))

ExchangeDecryptResponse ==
    /\ After("encrypt_response")
    /\ \E garble \in Garbles :
           ExchangeHost("decrypt_response",
                        decrypt_response(chan["host"], response_wire[1], garble))

NextExchange ==
    \/ ExchangeAuthenticateSession
    \/ ExchangeVerifyAuthenticateSession
    \/ ExchangeFinishAuthenticateSession
    \/ ExchangeEncryptCommand
    \/ ExchangeDecryptCommand
    \/ ExchangeEncryptResponse
    \/ ExchangeDecryptResponse

SpecExchange == Init /\ [][NextExchange]_vars

\* --------------------------------------------- commands sent in a row
\*
\* An established pair of channels whose host does not wait: the calls come in
\* any order, and every message is received as it was sent.  The host may
\* encrypt a command while the response to an earlier one has not arrived, and
\* receives whatever response the card emitted last.

PipelinedHost(op, r) ==
    /\ Step("host", op, r, Len(OldChain) + MaxPipelined, MaxPipelined)
    /\ command_wire' = IF r.out # NoneOpt THEN r.out ELSE command_wire
    /\ UNCHANGED response_wire

PipelinedCard(op, r) ==
    /\ Step("card", op, r, Len(OldChain) + MaxPipelined, MaxPipelined)
    /\ response_wire' = IF r.out # NoneOpt THEN r.out ELSE response_wire
    /\ UNCHANGED command_wire

PipelinedEncryptCommand ==
    \E m \in InnerCommands :
        PipelinedHost("encrypt_command", encrypt_command(chan["host"], m[1], m[2]))

PipelinedDecryptCommand ==
    /\ command_wire # NoneOpt
    /\ \E garble \in Garbles :
           PipelinedCard("decrypt_command",
                         decrypt_command(chan["card"], command_wire[1], garble))

PipelinedEncryptResponse ==
    \E m \in InnerResponses :
        PipelinedCard("encrypt_response", encrypt_response(chan["card"], m[1], m[2]))

PipelinedDecryptResponse ==
    /\ response_wire # NoneOpt
    /\ \E garble \in Garbles :
           PipelinedHost("decrypt_response",
                         decrypt_response(chan["host"], response_wire[1], garble))

PipelinedVerifyResponseMac ==
    /\ response_wire # NoneOpt
    /\ PipelinedHost("verify_response_mac",
                     verify_response_mac(chan["host"], response_wire[1]))

NextPipelined ==
    \/ PipelinedEncryptCommand
    \/ PipelinedDecryptCommand
    \/ PipelinedEncryptResponse
    \/ PipelinedDecryptResponse
    \/ PipelinedVerifyResponseMac

SpecPipelined == InitNearLimit /\ [][NextPipelined]_vars

\* ------------------------------------------- messages to and from bytes
\*
\* The codec of message.rs by itself: a message is constructed, serialized to
\* a frame and the frame is parsed, or a frame is received from elsewhere and
\* parsed.  The channels take no part.

\* COMMAND_DATA of the tests, "Hello, world!"
HelloWorld == <<72, 101, 108, 108, 111, 44, 32, 119, 111, 114, 108, 100, 33>>

Repeat(byte, n) == [i \in 1 .. n |-> byte]

\* The data messages are constructed with: none, one byte that is or is not a
\* session ID, "Hello, world!", a session ID followed by it, and data of the
\* largest size allowed and of one byte more
CodecData ==
    {<<>>,
     <<MAX_SESSION_ID>>,
     <<MAX_SESSION_ID + 1>>,
     HelloWorld,
     <<CHANNEL_ID>> \o HelloWorld,
     Repeat(HelloWorld[1], MAX_MSG_SIZE),
     Repeat(HelloWorld[1], MAX_MSG_SIZE + 1)}

CodecMacs == {Repeat(HelloWorld[2], MAC_SIZE)}

SessionIds == {CHANNEL_ID, MAX_SESSION_ID}

\* What follows the length field in the frames that are received: data of the
\* constructed messages, and a session ID, valid or not, followed by a byte
\* less than a MAC or by a MAC
ReceivedBodies ==
    (CodecData \ {Repeat(HelloWorld[1], MAX_MSG_SIZE),
                  Repeat(HelloWorld[1], MAX_MSG_SIZE + 1)})
    \cup {<<id>> \o Repeat(HelloWorld[2], n) :
            id \in {CHANNEL_ID, MAX_SESSION_ID + 1}, n \in {MAC_SIZE - 1, MAC_SIZE}}

\* The frames that are received: a code, known or not, a length field that is
\* the length of what follows or one more or less, and what follows; and all
\* that cut down to fewer than three bytes
ReceivedFrames ==
    LET whole == {<<code>> \o WriteU16(Len(body) + off) \o body :
                    code \in CommandCodes \cup ResponseCodes \cup {0},
                    body \in ReceivedBodies,
                    off \in {0, 1, 2 * MAC_SIZE}}
    IN  whole \cup {SubSeq(f, 1, n) : f \in whole, n \in 0 .. 2}

Returned(of, r) == [of |-> of, result |-> r.result, value |-> r.value]

\* A step of the codec: the call `op` returned r and left the frame f
CodecStep(op, of, r, f) ==
    /\ message' = Returned(of, r)
    /\ frame' = f
    /\ last' = [side |-> "none", op |-> op, result |-> r.result, inner |-> NoneOpt]
    /\ UNCHANGED <<chan, gone, command_wire, response_wire, cmacs, sent, advances,
                   store>>

\* The last call returned a message of the kind `of`
Holds(of) == message # NoneOpt /\ message.of = of /\ message.result = "Ok"

Constructors ==
    {"CommandMessage::new", "CommandMessage::new_with_mac", "ResponseMessage::new",
     "ResponseMessage::new_with_mac", "ResponseMessage::success"}

CommandNew ==
    \E command_type \in CommandCodes, data \in CodecData :
        CodecStep("CommandMessage::new", "command",
                  CommandMessage_new(command_type, Raw(data)), <<>>)

CommandNewWithMac ==
    \E command_type \in CommandCodes, id \in SessionIds, data \in CodecData,
       mac \in CodecMacs :
        LET r == CommandMessage_new_with_mac(command_type, id, Raw(data), mac)
        IN  CodecStep("CommandMessage::new_with_mac", "command",
                      IF r.ok THEN ResultOk(r.value) ELSE ResultErr("ProtocolError"),
                      <<>>)

CommandInto ==
    /\ Holds("command")
    /\ last.op \in Constructors
    /\ CodecStep("CommandMessage::into", "command", message,
                 CommandMessage_into(message.value[1]))

CommandParse ==
    /\ last.op \in {"CommandMessage::into", "receive"}
    /\ CodecStep("CommandMessage::parse", "command", CommandMessage_parse(frame), frame)

ResponseNew ==
    \E code \in ResponseCodes, data \in CodecData :
        CodecStep("ResponseMessage::new", "response",
                  ResultOk(ResponseMessage_new(code, Raw(data))), <<>>)

ResponseNewWithMac ==
    \E code \in ResponseCodes, id \in SessionIds, data \in CodecData,
       mac \in CodecMacs :
        CodecStep("ResponseMessage::new_with_mac", "response",
                  ResultOk(ResponseMessage_new_with_mac(code, id, Raw(data), mac)),
                  <<>>)

ResponseSuccess ==
    \E command_type \in CommandCodes, data \in CodecData :
        CodecStep("ResponseMessage::success", "response",
                  ResultOk(ResponseMessage_success(command_type, Raw(data))), <<>>)

ResponseInto ==
    /\ Holds("response")
    /\ last.op \in Constructors
    /\ CodecStep("ResponseMessage::into", "response", message,
                 ResponseMessage_into(message.value[1]))

ResponseParse ==
    /\ last.op \in {"ResponseMessage::into", "receive"}
    /\ CodecStep("ResponseMessage::parse", "response", ResponseMessage_parse(frame),
                 frame)

Receive ==
    \E f \in ReceivedFrames :
        CodecStep("receive", "frame", ResultErr("none"), f)

InitCodec ==
    /\ chan = [side \in Sides |-> SecureChannel_new(CHANNEL_ID, 1)]
    /\ cmacs = [side \in Sides |-> 0]
    /\ sent = [side \in Sides |-> 0]
    /\ InitRest

NextCodec ==
    \/ CommandNew
    \/ CommandNewWithMac
    \/ CommandInto
    \/ CommandParse
    \/ ResponseNew
    \/ ResponseNewWithMac
    \/ ResponseSuccess
    \/ ResponseInto
    \/ ResponseParse
    \/ Receive

SpecCodec == InitCodec /\ [][NextCodec]_vars

\* ------------------------------------------- frames from the peer
\*
\* The pair of channels in exchanges, where at any time a frame may arrive
\* from elsewhere: the receiver parses it and, if it parses, the host passes
\* the ResponseMessage to decrypt_response and the device passes the
\* CommandMessage to decrypt_command.  A run ends with the first such frame.

\* The call `op` of `side` on the message parsed from frame f returned r
ReceivedStep(side, op, of, parsed, f, r) ==
    /\ gone = {}
    /\ message = NoneOpt
    /\ chan' = [chan EXCEPT ![side] = r.ch]
    /\ last' = [side |-> side, op |-> op, result |-> r.result, inner |-> r.inner]
    /\ gone' = IF r.result = "panic" THEN gone \cup {side} ELSE gone
    /\ frame' = f
    /\ message' = Returned(of, parsed)
    /\ advances' = [advances EXCEPT ![side] = @ + r.ch.counter - chan[side].counter]
    /\ cmacs' = [cmacs EXCEPT ![side] =
                   IF r.ch.mac_chaining_value # chan[side].mac_chaining_value
                   THEN @ + 1 ELSE @]
    /\ UNCHANGED <<command_wire, response_wire, sent, store>>

ReceiveResponse ==
    /\ gone = {}
    /\ message = NoneOpt
    /\ chan["host"].security_level = "Authenticated"
    /\ \E f \in ReceivedFrames, garble \in Garbles :
           LET parsed == ResponseMessage_parse(f)
           IN  /\ parsed.result = "Ok"
               /\ ReceivedStep("host", "decrypt_response", "ResponseMessage", parsed, f,
                               decrypt_response(chan["host"], parsed.value[1], garble))

ReceiveCommand ==
    /\ gone = {}
    /\ message = NoneOpt
    /\ chan["card"].security_level = "Authenticated"
    /\ \E f \in ReceivedFrames, garble \in Garbles :
           LET parsed == CommandMessage_parse(f)
           IN  /\ parsed.result = "Ok"
               /\ ReceivedStep("card", "decrypt_command", "CommandMessage", parsed, f,
                               decrypt_command(chan["card"], parsed.value[1], garble))

NextReceived ==
    \/ ExchangeAuthenticateSession
    \/ ExchangeVerifyAuthenticateSession
    \/ ExchangeFinishAuthenticateSession
    \/ ExchangeEncryptCommand
    \/ ExchangeDecryptCommand
    \/ ExchangeEncryptResponse
    \/ ExchangeDecryptResponse
    \/ ReceiveResponse
    \/ ReceiveCommand

SpecReceived == Init /\ [][NextReceived]_vars

\* ------------------------------------------- the client and the device
\*
\* A client session on the host channel of an established pair, and the device
\* behind the other channel: the commands of src/command and src/client, sent
\* with Client::send_command, and the store of objects and options they act
\* on.  A request is a tuple <<command, argument, ...>>; the channel carries it
\* as the payload of an inner message with the code of the command.

\* A client makes at most MaxCommands calls in a run that uses the opaque
\* objects, the options and the random bytes, and at most MaxKeyCommands in a
\* run that uses keys.
MaxCommands == 3

MaxKeyCommands == 6

\* audit.rs: AuditOption and its byte
AuditOptions == {"Off", "On", "Fix"}

\* AuditOption::from_u8 reading 0x01 as Off
AuditOption_from_u8_on_as_off(byte) ==
    CASE byte = 0 -> ResultOk("Off")
      [] byte = 1 -> ResultOk("Off")
      [] byte = 2 -> ResultOk("Fix")
      [] OTHER -> ResultErr("invalid audit option value")

AuditOption_from_u8(byte) ==
    CASE byte = 0 -> ResultOk("Off")
      [] byte = 1 -> ResultOk("On")
      [] byte = 2 -> ResultOk("Fix")
      [] OTHER -> ResultErr("invalid audit option value")

AuditOption_to_u8(option) ==
    CASE option = "Off" -> 0
      [] option = "On" -> 1
      [] option = "Fix" -> 2

\* get_pseudo_random.rs: packet size, less the response type byte and the
\* length of the response data
MAX_RAND_BYTES == 2048 - 1 - 2

\* The byte of a command type, as the YubiHSM2 protocol numbers them
CommandType_to_u8(command) ==
    CASE command = "PutOpaqueObject" -> 66
      [] command = "GetOpaqueObject" -> 67
      [] command = "PutAsymmetricKey" -> 69
      [] command = "GenAsymmetricKey" -> 70
      [] command = "ExportWrapped" -> 74
      [] command = "ImportWrapped" -> 75
      [] command = "GetObjectInfo" -> 78
      [] command = "PutOption" -> 79
      [] command = "GetOption" -> 80
      [] command = "GetPseudoRandom" -> 81
      [] command = "DeleteObject" -> 88
      [] command = "GenerateWrapKey" -> 91

\* PutObjectParams and GenerateKeyParams: <<id, label, domains, capabilities,
\* algorithm>>.  The object made of them, with its type and origin, is
\* <<id, type, label, domains, capabilities, algorithm, origin>>
ObjectInfo(params, type, origin) ==
    <<params[1], type, params[2], params[3], params[4], params[5], origin>>

\* What the device answers: its store, "Ok" and a value, or the kind of the
\* device error and no value
Answer(objs, opts, result, value) ==
    [objects |-> objs, options |-> opts, result |-> result, value |-> value]

\* An import under wrap that keeps the origin
Wrapped_origin_kept(origin) == origin

\* The origin of an object that was imported under wrap
Wrapped_origin(origin) ==
    CASE origin = "Generated" -> "WrappedGenerated"
      [] origin = "Imported" -> "WrappedImported"
      [] OTHER -> origin

\* The device executing a request on its store.  An object is <<info, data>>;
\* a generated key has the data <<"generated", id>>.  A wrapped object is
\* <<"wrapped", data of the wrap key, object>>.
MockHsm_execute(objs, opts, request) ==
    LET command == request[1]
        Put(type, origin, data) ==
            Answer([objs EXCEPT ![<<request[2][1], type>>] =
                       Some(<<ObjectInfo(request[2], type, origin), data>>)],
                   opts, "Ok", Some(request[2][1]))
        Found(slot) == slot \in Slots /\ objs[slot] # NoneOpt
    IN  CASE command = "PutOpaqueObject" -> Put("Opaque", "Imported", request[3])
          [] command = "PutAsymmetricKey" -> Put("AsymmetricKey", "Imported", request[3])
          [] command = "GenAsymmetricKey" ->
                Put("AsymmetricKey", "Generated", <<"generated", request[2][1]>>)
          [] command = "GenerateWrapKey" ->
                Put("WrapKey", "Generated", <<"generated", request[2][1]>>)
          [] command = "GetOpaqueObject" ->
                IF Found(<<request[2], "Opaque">>)
                THEN Answer(objs, opts, "Ok", Some(objs[<<request[2], "Opaque">>][1][2]))
                ELSE Answer(objs, opts, "ObjectNotFound", NoneOpt)
          [] command = "GetObjectInfo" ->
                IF Found(<<request[2], request[3]>>)
                THEN Answer(objs, opts, "Ok", Some(objs[<<request[2], request[3]>>][1][1]))
                ELSE Answer(objs, opts, "ObjectNotFound", NoneOpt)
          [] command = "DeleteObject" ->
                IF Found(<<request[2], request[3]>>)
                THEN Answer([objs EXCEPT ![<<request[2], request[3]>>] = NoneOpt],
                            opts, "Ok", Some(<<>>))
                ELSE Answer(objs, opts, "ObjectNotFound", NoneOpt)
          [] command = "ExportWrapped" ->
                \* <<command, wrap key ID, object type, object ID>>
                IF ~Found(<<request[2], "WrapKey">>) \/ ~Found(<<request[4], request[3]>>)
                THEN Answer(objs, opts, "ObjectNotFound", NoneOpt)
                ELSE IF \/ "EXPORT_WRAPPED" \notin objs[<<request[2], "WrapKey">>][1][1][5]
                        \/ "EXPORT_UNDER_WRAP" \notin objs[<<request[4], request[3]>>][1][1][5]
                THEN Answer(objs, opts, "InvalidPermission", NoneOpt)
                ELSE Answer(objs, opts, "Ok",
                            Some(<<"wrapped", objs[<<request[2], "WrapKey">>][1][2],
                                   objs[<<request[4], request[3]>>][1]>>))
          [] command = "ImportWrapped" ->
                \* <<command, wrap key ID, wrapped object>>
                IF ~Found(<<request[2], "WrapKey">>)
                THEN Answer(objs, opts, "ObjectNotFound", NoneOpt)
                ELSE IF "IMPORT_WRAPPED" \notin objs[<<request[2], "WrapKey">>][1][1][5]
                THEN Answer(objs, opts, "InvalidPermission", NoneOpt)
                ELSE IF request[3][2] # objs[<<request[2], "WrapKey">>][1][2]
                THEN Answer(objs, opts, "InvalidData", NoneOpt)
                ELSE LET info == request[3][3][1]
                         imported == [info EXCEPT ![7] = Wrapped_origin(@)]
                     IN  Answer([objs EXCEPT ![<<info[1], info[2]>>] =
                                    Some(<<imported, request[3][3][2]>>)],
                                opts, "Ok", Some(<<info[2], info[1]>>))
          [] command = "PutOption" ->
                \* <<command, tag, byte>>: an option that is Fix stays Fix
                IF request[3] \notin 0 .. 2 \/ (opts[request[2]] = 2 /\ request[3] # 2)
                THEN Answer(objs, opts, "InvalidData", NoneOpt)
                ELSE Answer(objs, [opts EXCEPT ![request[2]] = request[3]], "Ok",
                            Some(<<>>))
          [] command = "GetOption" -> Answer(objs, opts, "Ok", Some(opts[request[2]]))
          [] command = "GetPseudoRandom" -> Answer(objs, opts, "Ok", Some(request[2]))

\* The client session and the device it talks to: both channels and the
\* store.  What a call of the client leaves behind is that, the Result and its
\* value, and the command and the response that were emitted.
Outcome(host, card, objs, opts, result, value, command, response) ==
    [host |-> host, card |-> card, objects |-> objs, options |-> opts,
     result |-> result, value |-> value, command |-> command, response |-> response]

Session ==
    Outcome(chan["host"], chan["card"], objects, options, "Ok", NoneOpt, NoneOpt, NoneOpt)

\* Client::send_command: the request is encrypted on the host channel, the
\* device decrypts and executes it and encrypts its answer, a Success of the
\* command code or an error code, and the host decrypts the response.  An error
\* of the channel is the error of the call.
send_command(session, request) ==
    LET code == CommandType_to_u8(request[1])
        c == encrypt_command(session.host, code, 1)
        d == decrypt_command(session.card, c.out[1], "pad")
        x == MockHsm_execute(session.objects, session.options, request)
        e == encrypt_response(d.ch, IF x.result = "Ok" THEN Success(code) ELSE MemoryError, 1)
        v == decrypt_response(c.ch, e.out[1], "pad")
    IN  IF c.result # "Ok"
        THEN Outcome(c.ch, session.card, session.objects, session.options, c.result,
                     NoneOpt, NoneOpt, NoneOpt)
        ELSE IF d.result # "Ok"
        THEN Outcome(c.ch, d.ch, session.objects, session.options, d.result,
                     NoneOpt, c.out, NoneOpt)
        ELSE IF e.result # "Ok"
        THEN Outcome(c.ch, e.ch, x.objects, x.options, e.result, NoneOpt, c.out, NoneOpt)
        ELSE IF v.result # "Ok"
        THEN Outcome(v.ch, e.ch, x.objects, x.options, v.result, NoneOpt, c.out, e.out)
        ELSE Outcome(v.ch, e.ch, x.objects, x.options, x.result, x.value, c.out, e.out)

\* A call that fails before it sends anything
NotSent(session, kind) == [session EXCEPT !.result = kind]

\* get_pseudo_random refusing only more than MAX_RAND_BYTES
get_pseudo_random_off_by_one(session, bytes) ==
    IF bytes > MAX_RAND_BYTES
    THEN NotSent(session, "ProtocolError")
    ELSE send_command(session, <<"GetPseudoRandom", bytes>>)

get_pseudo_random(session, bytes) ==
    IF bytes >= MAX_RAND_BYTES
    THEN NotSent(session, "ProtocolError")
    ELSE send_command(session, <<"GetPseudoRandom", bytes>>)

\* put_opaque sending the parameters without the bytes
put_opaque_without_data(session, object_id, label, domains, capabilities, algorithm, bytes) ==
    send_command(session,
                 <<"PutOpaqueObject",
                   <<object_id, label, domains, capabilities, algorithm>>, <<>>>>)

put_opaque(session, object_id, label, domains, capabilities, algorithm, bytes) ==
    send_command(session,
                 <<"PutOpaqueObject",
                   <<object_id, label, domains, capabilities, algorithm>>, bytes>>)

\* A call of the client returned r: the channels and the store are as the call
\* left them, `frame` is the request and `message` what the call returned.  A
\* run has at most max_commands exchanges.
ClientStep(op, request, r, max_commands) ==
    /\ gone = {}
    /\ advances' = [side \in Sides |->
                      advances[side] + (IF side = "host" THEN r.host.counter
                                        ELSE r.card.counter) - chan[side].counter]
    /\ advances'["host"] <= max_commands
    /\ chan' = [side \in Sides |-> IF side = "host" THEN r.host ELSE r.card]
    /\ objects' = r.objects
    /\ options' = r.options
    /\ wrapped' = IF op = "export_wrapped" /\ r.result = "Ok" THEN r.value ELSE wrapped
    /\ last' = [side |-> "host", op |-> op, result |-> r.result, inner |-> NoneOpt]
    /\ frame' = request
    /\ message' = Returned(op, r)
    /\ command_wire' = IF r.command # NoneOpt THEN r.command ELSE command_wire
    /\ response_wire' = IF r.response # NoneOpt THEN r.response ELSE response_wire
    /\ cmacs' = [side \in Sides |->
                   IF chan'[side].mac_chaining_value # chan[side].mac_chaining_value
                   THEN cmacs[side] + 1 ELSE cmacs[side]]
    /\ sent' = [side \in Sides |->
                  IF (IF side = "host" THEN r.command ELSE r.response) # NoneOpt
                  THEN sent[side] + 1 ELSE sent[side]]
    /\ UNCHANGED gone

\* The numbers of bytes asked for: none, one, and those around MAX_RAND_BYTES
RandomSizes == {0, 1, MAX_RAND_BYTES - 1, MAX_RAND_BYTES, MAX_RAND_BYTES + 1}

\* TEST_MESSAGE of the tests, and other bytes
OpaqueData == {HelloWorld, <<>>}

\* Label, domains, capabilities and algorithm of the opaque objects that are put
OpaqueParams ==
    {<<"yubihsm.rs test key", {1}, {}, "OPAQUE_DATA">>,
     <<"another label", {1, 2}, {"EXPORT_UNDER_WRAP"}, "OPAQUE_X509_CERT">>}

GetPseudoRandom(max_commands) ==
    \E bytes \in RandomSizes :
        ClientStep("get_pseudo_random", <<bytes>>, get_pseudo_random(Session, bytes),
                   max_commands)

PutOpaque(max_commands) ==
    \E id \in ObjectIds, p \in OpaqueParams, bytes \in OpaqueData :
        ClientStep("put_opaque", <<id, p[1], p[2], p[3], p[4], bytes>>,
                   put_opaque(Session, id, p[1], p[2], p[3], p[4], bytes),
                   max_commands)

GetOpaque(max_commands) ==
    \E id \in ObjectIds :
        ClientStep("get_opaque", <<id>>, send_command(Session, <<"GetOpaqueObject", id>>),
                   max_commands)

DeleteObject(slots, max_commands) ==
    \E slot \in slots :
        ClientStep("delete_object", slot,
                   send_command(Session, <<"DeleteObject", slot[1], slot[2]>>),
                   max_commands)

\* put_command_audit_option / put_force_audit_option: the option is serialized
\* as its byte
PutOption(max_commands) ==
    \E tag \in OptionTags, option \in AuditOptions :
        ClientStep("put_option", <<tag, option>>,
                   send_command(Session, <<"PutOption", tag, AuditOption_to_u8(option)>>),
                   max_commands)

\* get_command_audit_option / get_force_audit_option: the byte of the response
\* is deserialized as an option
GetOption(max_commands) ==
    \E tag \in OptionTags :
        LET r == send_command(Session, <<"GetOption", tag>>)
            option == AuditOption_from_u8(r.value[1])
        IN  ClientStep("get_option", <<tag>>,
                       IF r.result # "Ok" THEN r
                       ELSE [r EXCEPT !.result = option.result, !.value = option.value],
                       max_commands)

\* Both channels after the handshake, and an empty store
InitClient ==
    /\ chan = [side \in Sides |-> Established(1)]
    /\ cmacs = [side \in Sides |-> 1]
    /\ sent = [side \in Sides |-> IF side = "host" THEN 1 ELSE 0]
    /\ InitRest

NextClient ==
    \/ GetPseudoRandom(MaxCommands)
    \/ PutOpaque(MaxCommands)
    \/ GetOpaque(MaxCommands)
    \/ DeleteObject(ObjectIds \X {"Opaque"}, MaxCommands)
    \/ PutOption(MaxCommands)
    \/ GetOption(MaxCommands)

SpecClient == InitClient /\ [][NextClient]_vars

\* The keys that are generated and put: TEST_KEY_ID is the wrap key and
\* TEST_EXPORTED_KEY_ID the asymmetric key.  Label, domains, capabilities and
\* algorithm of the asymmetric keys, with and without EXPORT_UNDER_WRAP
KeyParams ==
    {<<"yubihsm.rs exported test key", {1}, {"ASYMMETRIC_SIGN_EDDSA", "EXPORT_UNDER_WRAP"},
       "EC_ED25519">>,
     <<"yubihsm.rs test key", {1, 2}, {"ASYMMETRIC_SIGN_EDDSA"}, "EC_ED25519">>}

WrapKeyParams ==
    {<<"yubihsm.rs test key", {1}, {"EXPORT_WRAPPED", "IMPORT_WRAPPED"}, "AES128_CCM_WRAP">>}

KeySlots == {<<100, "WrapKey">>, <<101, "AsymmetricKey">>}

GenerateAsymmetricKey ==
    \E p \in KeyParams :
        ClientStep("generate_asymmetric_key", <<101, p[1], p[2], p[3], p[4]>>,
                   send_command(Session, <<"GenAsymmetricKey", <<101, p[1], p[2], p[3], p[4]>>>>),
                   MaxKeyCommands)

\* generate_wrap_key sending the delegated capabilities as the capabilities
generate_wrap_key_delegated_as_capabilities(session, key_id, label, domains, capabilities, delegated_capabilities, algorithm) ==
    send_command(session,
                 <<"GenerateWrapKey",
                   <<key_id, label, domains, delegated_capabilities, algorithm>>,
                   delegated_capabilities>>)

\* generate_wrap_key: GenWrapKeyCommand has the parameters and the delegated
\* capabilities, GenWrapKeyResponse the ID of the key
generate_wrap_key(session, key_id, label, domains, capabilities, delegated_capabilities, algorithm) ==
    send_command(session,
                 <<"GenerateWrapKey",
                   <<key_id, label, domains, capabilities, algorithm>>,
                   delegated_capabilities>>)

GenerateWrapKey ==
    \E p \in WrapKeyParams :
        ClientStep("generate_wrap_key", <<100, p[1], p[2], p[3], p[4]>>,
                   generate_wrap_key(Session, 100, p[1], p[2], p[3],
                                     {"ASYMMETRIC_SIGN_EDDSA", "EXPORT_UNDER_WRAP"}, p[4]),
                   MaxKeyCommands)

PutAsymmetricKey ==
    \E p \in {k \in KeyParams : "EXPORT_UNDER_WRAP" \in k[3]} :
        ClientStep("put_asymmetric_key", <<101, p[1], p[2], p[3], p[4]>>,
                   send_command(Session,
                                <<"PutAsymmetricKey", <<101, p[1], p[2], p[3], p[4]>>,
                                  HelloWorld>>),
                   MaxKeyCommands)

GetObjectInfo ==
    \E slot \in KeySlots :
        ClientStep("get_object_info", slot,
                   send_command(Session, <<"GetObjectInfo", slot[1], slot[2]>>),
                   MaxKeyCommands)

ExportWrapped ==
    ClientStep("export_wrapped", <<100, "AsymmetricKey", 101>>,
               send_command(Session, <<"ExportWrapped", 100, "AsymmetricKey", 101>>),
               MaxKeyCommands)

ImportWrapped ==
    /\ wrapped # NoneOpt
    /\ ClientStep("import_wrapped", <<100, wrapped[1]>>,
                  send_command(Session, <<"ImportWrapped", 100, wrapped[1]>>),
                  MaxKeyCommands)

NextKeys ==
    \/ GenerateAsymmetricKey
    \/ GenerateWrapKey
    \/ PutAsymmetricKey
    \/ GetObjectInfo
    \/ DeleteObject(KeySlots, MaxKeyCommands)
    \/ ExportWrapped
    \/ ImportWrapped

SpecKeys == InitClient /\ [][NextKeys]_vars

\* ---------------------------------------------------------------- errors

\* u8
Bytes == 0 .. 255

\* enum HsmErrorKind: Unknown { code } is <<"Unknown", code>>, a named kind is
\* <<name>>
NamedKinds ==
    {"CommandInvalid", "DataInvalid", "SessionInvalid", "AuthFail",
     "SessionsFull", "SessionFailed", "StorageFailed", "WrongLength",
     "PermissionInvalid", "LogFull", "ObjectNotFound", "IDIllegal",
     "InvalidOTP", "DemoMode", "CmdUnexecuted", "GenericError",
     "ObjectExists"}

HsmErrorKinds ==
    {<<"Unknown", code>> : code \in Bytes} \cup {<<name>> : name \in NamedKinds}

\* HsmErrorKind::from_u8 with the tag 0x11 read as the tag 0x10
HsmErrorKind_from_u8_shared_tag(tag) ==
    CASE tag = 1 -> <<"CommandInvalid">>
      [] tag = 2 -> <<"DataInvalid">>
      [] tag = 3 -> <<"SessionInvalid">>
      [] tag = 4 -> <<"AuthFail">>
      [] tag = 5 -> <<"SessionsFull">>
      [] tag = 6 -> <<"SessionFailed">>
      [] tag = 7 -> <<"StorageFailed">>
      [] tag = 8 -> <<"WrongLength">>
      [] tag = 9 -> <<"PermissionInvalid">>
      [] tag = 10 -> <<"LogFull">>
      [] tag = 11 -> <<"ObjectNotFound">>
      [] tag = 12 -> <<"IDIllegal">>
      [] tag = 13 -> <<"InvalidOTP">>
      [] tag = 14 -> <<"DemoMode">>
      [] tag = 15 -> <<"CmdUnexecuted">>
      [] tag = 16 -> <<"GenericError">>
      [] tag = 17 -> <<"GenericError">>
      [] OTHER -> <<"Unknown", tag>>

HsmErrorKind_from_u8(tag) ==
    CASE tag = 1 -> <<"CommandInvalid">>
      [] tag = 2 -> <<"DataInvalid">>
      [] tag = 3 -> <<"SessionInvalid">>
      [] tag = 4 -> <<"AuthFail">>
      [] tag = 5 -> <<"SessionsFull">>
      [] tag = 6 -> <<"SessionFailed">>
      [] tag = 7 -> <<"StorageFailed">>
      [] tag = 8 -> <<"WrongLength">>
      [] tag = 9 -> <<"PermissionInvalid">>
      [] tag = 10 -> <<"LogFull">>
      [] tag = 11 -> <<"ObjectNotFound">>
      [] tag = 12 -> <<"IDIllegal">>
      [] tag = 13 -> <<"InvalidOTP">>
      [] tag = 14 -> <<"DemoMode">>
      [] tag = 15 -> <<"CmdUnexecuted">>
      [] tag = 16 -> <<"GenericError">>
      [] tag = 17 -> <<"ObjectExists">>
      [] OTHER -> <<"Unknown", tag>>

HsmErrorKind_to_u8(kind) ==
    CASE kind[1] = "Unknown" -> kind[2]
      [] kind[1] = "CommandInvalid" -> 1
      [] kind[1] = "DataInvalid" -> 2
      [] kind[1] = "SessionInvalid" -> 3
      [] kind[1] = "AuthFail" -> 4
      [] kind[1] = "SessionsFull" -> 5
      [] kind[1] = "SessionFailed" -> 6
      [] kind[1] = "StorageFailed" -> 7
      [] kind[1] = "WrongLength" -> 8
      [] kind[1] = "PermissionInvalid" -> 9
      [] kind[1] = "LogFull" -> 10
      [] kind[1] = "ObjectNotFound" -> 11
      [] kind[1] = "IDIllegal" -> 12
      [] kind[1] = "InvalidOTP" -> 13
      [] kind[1] = "DemoMode" -> 14
      [] kind[1] = "CmdUnexecuted" -> 15
      [] kind[1] = "GenericError" -> 16
      [] kind[1] = "ObjectExists" -> 17

ResponseMessage_is_err(m) == \A cmd \in CommandCodes : m.code # Success(cmd)

\* HsmErrorKind::from_response_message that does not ask whether the response
\* is an error
HsmErrorKind_from_response_message_any_code(response) ==
    IF DataLen(response.data) = 1
    THEN Some(HsmErrorKind_from_u8(response.data[3][1]))
    ELSE NoneOpt

HsmErrorKind_from_response_message(response) ==
    IF ResponseMessage_is_err(response) /\ DataLen(response.data) = 1
    THEN Some(HsmErrorKind_from_u8(response.data[3][1]))
    ELSE NoneOpt

\* impl From<HsmErrorKind> for ResponseMessage
ResponseMessage_from(kind) ==
    ResponseMessage_new(MemoryError, Raw(<<HsmErrorKind_to_u8(kind)>>))

NO_DESCRIPTION == "(no description)"

Error_new(kind, description) == [kind |-> kind, description |-> description]

Error_description(err) ==
    IF err.description = NoneOpt THEN NO_DESCRIPTION ELSE err.description[1]

\* The device errors that session errors carry in the model
DeviceKinds ==
    {HsmErrorKind_from_u8(tag) : tag \in {0, 1, 17, 18, 255}} \cup {<<"Unknown", 1>>}

\* enum SessionErrorKind, as the conversion to a client error lists it
SessionErrorKinds ==
    {<<"AuthFail">>, <<"ClosedSessionError">>, <<"CreateFailed">>, <<"ProtocolError">>,
     <<"CommandLimitExceeded">>, <<"MismatchError">>, <<"VerifyFailed">>,
     <<"ResponseError">>}
    \cup {<<"DeviceError", kind>> : kind \in DeviceKinds}

\* The description of an error that has one
Descriptions_text == Some("max commands per session exceeded")

Descriptions == {NoneOpt, Descriptions_text, Some(NO_DESCRIPTION)}

\* The conversion with an arm of its own for VerifyFailed
ClientErrorKind_from_verify_failed(kind) ==
    CASE kind[1] \in {"ProtocolError", "CommandLimitExceeded", "MismatchError"} ->
             <<"ProtocolError">>
      [] OTHER -> kind

\* The match of impl From<SessionError> for ClientError
ClientErrorKind_from(kind) ==
    CASE kind[1] = "AuthFail" -> <<"AuthFail">>
      [] kind[1] = "ClosedSessionError" -> <<"ClosedSessionError">>
      [] kind[1] = "CreateFailed" -> <<"CreateFailed">>
      [] kind[1] = "DeviceError" -> <<"DeviceError", kind[2]>>
      [] kind[1] \in {"ProtocolError", "CommandLimitExceeded", "MismatchError",
                      "VerifyFailed"} -> <<"ProtocolError">>
      [] kind[1] = "ResponseError" -> <<"ResponseError">>

ClientError_from(err) ==
    Error_new(ClientErrorKind_from(err.kind), Some(Error_description(err)))

FromU8 ==
    \E tag \in Bytes :
        CodecStep("HsmErrorKind::from_u8", "kind", ResultOk(HsmErrorKind_from_u8(tag)),
                  <<tag>>)

ToU8 ==
    \E kind \in HsmErrorKinds :
        CodecStep("HsmErrorKind::to_u8", "kind", ResultOk(kind),
                  <<HsmErrorKind_to_u8(kind)>>)

ResponseFrom ==
    /\ Holds("kind")
    /\ CodecStep("ResponseMessage::from", "response",
                 ResultOk(ResponseMessage_from(message.value[1])), <<>>)

FromResponseMessage ==
    /\ Holds("response")
    /\ CodecStep("HsmErrorKind::from_response_message", "option",
                 [result |-> "Ok",
                  value |-> HsmErrorKind_from_response_message(message.value[1])],
                 <<>>)

SessionErrorNew ==
    \E kind \in SessionErrorKinds, description \in Descriptions :
        CodecStep("SessionError::new", "session error",
                  ResultOk(Error_new(kind, description)), <<>>)

ClientErrorFrom ==
    /\ Holds("session error")
    /\ CodecStep("ClientError::from", "client error",
                 ResultOk(ClientError_from(message.value[1])), <<>>)

NextErrors ==
    \/ FromU8
    \/ ToU8
    \/ ResponseNew
    \/ ResponseSuccess
    \/ ResponseFrom
    \/ FromResponseMessage
    \/ SessionErrorNew
    \/ ClientErrorFrom

SpecErrors == InitCodec /\ [][NextErrors]_vars

\* ------------------------------------------------------------- properties

KeysZeroized(ch) ==
    ch.enc_key = ZeroKey /\ ch.mac_key = ZeroKey /\ ch.rmac_key = ZeroKey

\* The call returned the error `kind`, returned no message, and left the
\* channel Terminated with its three keys wiped
Rejected(r, kind) ==
    /\ r.result = kind
    /\ r.out = NoneOpt
    /\ r.inner = NoneOpt
    /\ r.ch.security_level = "Terminated"
    /\ KeysZeroized(r.ch)

\* The R-MAC that ch computes for response r
ExpectedRmac(ch, r) ==
    Mac_from(CMAC(ch.rmac_key, ch.mac_chaining_value, r.code, U16(MessageLen(r)),
                  ch.id, r.data))

\* r carries the session ID of ch and a MAC that is not the R-MAC ch computes
MacMismatch(ch, r) ==
    /\ r.session_id = Some(ch.id)
    /\ r.mac # NoneOpt
    /\ r.mac[1] # ExpectedRmac(ch, r)

\* C1: on an Authenticated host channel, verify_response_mac and
\* decrypt_response of a response that carries the channel's session ID and a
\* MAC other than the R-MAC the channel computes return VerifyFailed and leave
\* the channel Terminated with enc_key, mac_key and rmac_key all zero.
C1_MacMismatchTerminates ==
    chan["host"].security_level = "Authenticated" =>
        \A r \in ResponseInputs :
            MacMismatch(chan["host"], r) =>
                /\ Rejected(verify_response_mac(chan["host"], r), "VerifyFailed")
                /\ \A garble \in Garbles :
                       Rejected(decrypt_response(chan["host"], r, garble), "VerifyFailed")

\* The host has just been given such a response by decrypt_response
C1_Witness ==
    /\ last.side = "host"
    /\ last.op = "decrypt_response"
    /\ last.result = "VerifyFailed"
    /\ chan["host"].security_level = "Terminated"
    /\ KeysZeroized(chan["host"])
    /\ chan["card"].security_level = "Authenticated"

\* Responses altered in one or two places
TwiceAltered == UNION {Altered(r) : r \in ResponseInputs}

\* C2: on an Authenticated host channel, verify_response_mac and
\* decrypt_response of a response whose session ID is not the channel's return
\* MismatchError whatever the MAC is (absent, wrong or right), leave the channel
\* Terminated, and leave counter and mac_chaining_value as they were.
C2_SessionMismatchTerminates ==
    chan["host"].security_level = "Authenticated" =>
        \A r \in TwiceAltered :
            (r.session_id # NoneOpt /\ r.session_id[1] # chan["host"].id) =>
                \A v \in {verify_response_mac(chan["host"], r)}
                         \cup {decrypt_response(chan["host"], r, garble) : garble \in Garbles} :
                    /\ Rejected(v, "MismatchError")
                    /\ v.ch.counter = chan["host"].counter
                    /\ v.ch.mac_chaining_value = chan["host"].mac_chaining_value

\* The host has just been given a response of another session, after one
\* complete exchange
C2_Witness ==
    /\ last.side = "host"
    /\ last.op = "verify_response_mac"
    /\ last.result = "MismatchError"
    /\ chan["host"].security_level = "Terminated"
    /\ chan["host"].counter = 2
    /\ Len(chan["host"].mac_chaining_value) = 2

\* A message whose ciphertext CommandMessage::new_with_mac accepts
Encryptable(m) == PadLen(SerializedLen(m[2])) <= MAX_MSG_SIZE

\* Every way of sending on ch fails with CommandLimitExceeded, emits nothing
\* and leaves ch Terminated
SendsFail(ch) ==
    /\ \A p \in PlainPayloads :
           Rejected(command_with_mac(ch, SessionMessage, Plain(p)), "CommandLimitExceeded")
    /\ \A m \in InnerCommands :
           Rejected(encrypt_command(ch, m[1], m[2]), "CommandLimitExceeded")

\* C3: on an Authenticated host channel whose counter is
\* MAX_COMMANDS_PER_SESSION - 1, encrypt_command succeeds and emits a command,
\* and a response that is then verified successfully leaves the counter at
\* MAX_COMMANDS_PER_SESSION; from there encrypt_command and command_with_mac
\* fail with CommandLimitExceeded, emit no command and leave the channel
\* Terminated.
C3_CounterExhaustion ==
    LET h == chan["host"]
    IN  /\ (h.security_level = "Authenticated"
              /\ h.counter = MAX_COMMANDS_PER_SESSION - 1) =>
               /\ \A m \in InnerCommands :
                      Encryptable(m) =>
                          LET e == encrypt_command(h, m[1], m[2])
                          IN  /\ e.result = "Ok"
                              /\ e.out # NoneOpt
                              /\ e.ch.security_level = "Authenticated"
                              /\ e.ch.counter = MAX_COMMANDS_PER_SESSION - 1
               /\ \A r \in ResponseInputs :
                      \A v \in {verify_response_mac(h, r)}
                               \cup {decrypt_response(h, r, garble) : garble \in Garbles} :
                          v.result = "Ok" =>
                              /\ v.ch.security_level = "Authenticated"
                              /\ v.ch.counter = MAX_COMMANDS_PER_SESSION
                              /\ SendsFail(v.ch)
        /\ (h.security_level = "Authenticated"
              /\ h.counter = MAX_COMMANDS_PER_SESSION) => SendsFail(h)

\* The host has sent the one command that was left, has verified the response
\* to it, and has just been refused the next encrypt_command
C3_Witness ==
    /\ last.side = "host"
    /\ last.op = "encrypt_command"
    /\ last.result = "CommandLimitExceeded"
    /\ chan["host"].security_level = "Terminated"
    /\ chan["host"].counter = MAX_COMMANDS_PER_SESSION
    /\ advances["host"] = 1
    /\ sent["host"] = MAX_COMMANDS_PER_SESSION
    /\ command_wire # NoneOpt

\* C4 as the specification states it: a channel that is Authenticated, on
\* either side, has a counter below MAX_COMMANDS_PER_SESSION.
C4_AsStated ==
    \A side \in Sides :
        chan[side].security_level = "Authenticated" =>
            chan[side].counter < MAX_COMMANDS_PER_SESSION

\* The methods of the host that emit a MACed command
SendOps == {"command_with_mac", "authenticate_session", "encrypt_command"}

\* C4: the limit is enforced when the host sends, not when the counter is
\* written: a send that runs past its assertions on a channel whose counter
\* has reached MAX_COMMANDS_PER_SESSION fails with CommandLimitExceeded, emits
\* nothing and leaves the channel Terminated with its keys wiped, and a send
\* below the limit never fails with CommandLimitExceeded.
C4_LimitEnforcedOnSend ==
    [][(last'.side = "host" /\ last'.op \in SendOps /\ last'.result # "panic") =>
           IF chan["host"].counter >= MAX_COMMANDS_PER_SESSION
           THEN /\ last'.result = "CommandLimitExceeded"
                /\ chan'["host"].security_level = "Terminated"
                /\ KeysZeroized(chan'["host"])
                /\ chan'["host"].counter = chan["host"].counter
                /\ command_wire' = command_wire
                /\ sent' = sent
           ELSE last'.result # "CommandLimitExceeded"]_vars

\* command_with_mac has just been refused on a host channel at the limit
C4_Witness ==
    /\ last.side = "host"
    /\ last.op = "command_with_mac"
    /\ last.result = "CommandLimitExceeded"
    /\ chan["host"].security_level = "Terminated"
    /\ chan["host"].counter >= MAX_COMMANDS_PER_SESSION

LegalTransitions ==
    {<<"None", "Authenticated">>, <<"None", "Terminated">>,
     <<"Authenticated", "Terminated">>}

\* C5 as the specification states it: whenever an operation changes a
\* channel's security level, it moves it None -> Authenticated, None ->
\* Terminated or Authenticated -> Terminated; in particular no operation moves
\* a Terminated channel to another level.
C5_AsStated ==
    [][\A side \in Sides :
           chan'[side].security_level # chan[side].security_level =>
               <<chan[side].security_level, chan'[side].security_level>>
                   \in LegalTransitions]_vars

\* C6: a channel whose security level is Terminated, on either side and
\* however it got there, has enc_key, mac_key and rmac_key all zero.
C6_TerminatedKeysZero ==
    \A side \in Sides :
        chan[side].security_level = "Terminated" => KeysZeroized(chan[side])

\* The host channel was dropped after the handshake and one complete exchange
C6_Witness ==
    /\ last.side = "host"
    /\ last.op = "drop"
    /\ chan["host"].security_level = "Terminated"
    /\ KeysZeroized(chan["host"])
    /\ chan["host"].counter = 2
    /\ chan["card"].security_level = "Authenticated"
    /\ ~KeysZeroized(chan["card"])

\* C7 as the specification states it: a Terminated channel has an all-zero
\* mac_chaining_value.
C7_AsStated ==
    \A side \in Sides :
        chan[side].security_level = "Terminated" =>
            chan[side].mac_chaining_value = ZeroChain

\* C7: entering Terminated wipes the three keys and leaves mac_chaining_value
\* as it was: a Terminated channel has an all-zero chaining value only if it
\* never computed or verified a C-MAC.
C7_TerminateKeepsChain ==
    \A side \in Sides :
        chan[side].security_level = "Terminated" =>
            /\ KeysZeroized(chan[side])
            /\ (chan[side].mac_chaining_value = ZeroChain <=> cmacs[side] = 0)

\* A Terminated host channel that still holds the tag of the last command
\* it MACed
C7_Witness ==
    /\ chan["host"].security_level = "Terminated"
    /\ KeysZeroized(chan["host"])
    /\ command_wire # NoneOpt
    /\ command_wire[1].mac = Some(Mac_from(chan["host"].mac_chaining_value))

\* The send and receive methods of the host
HostOps == SendOps \cup {"verify_response_mac", "decrypt_response"}

\* C8 as the specification states it: on a Terminated host channel none of
\* command_with_mac, authenticate_session, encrypt_command,
\* verify_response_mac and decrypt_response returns Ok, and none emits a MACed
\* command.
C8_AsStated ==
    [][(chan["host"].security_level = "Terminated"
          /\ last'.side = "host" /\ last'.op \in HostOps) =>
             /\ last'.result # "Ok"
             /\ sent'["host"] = sent["host"]]_vars

\* C9 as the specification states it: a channel whose security level is None
\* has an all-zero mac_chaining_value and has emitted no MACed command.
C9_AsStated ==
    \A side \in Sides :
        chan[side].security_level = "None" =>
            /\ chan[side].mac_chaining_value = ZeroChain
            /\ sent[side] = 0

\* C9: a channel whose security level is None has counter 0 and its keys
\* unwiped; its mac_chaining_value is all-zero until it MACs or verifies its
\* first command, which authenticate_session and command_with_mac do while the
\* level is still None: once it has emitted a MACed command, the chaining
\* value is not zero.
C9_NoneChannel ==
    \A side \in Sides :
        chan[side].security_level = "None" =>
            /\ chan[side].counter = 0
            /\ chan[side].enc_key # ZeroKey
            /\ chan[side].mac_key # ZeroKey
            /\ chan[side].rmac_key # ZeroKey
            /\ (chan[side].mac_chaining_value = ZeroChain <=> cmacs[side] = 0)
            /\ (sent[side] > 0 => chan[side].mac_chaining_value # ZeroChain)

\* The host has just emitted the AuthSession command and is not authenticated
C9_Witness ==
    /\ last.side = "host"
    /\ last.op = "authenticate_session"
    /\ last.result = "Ok"
    /\ chan["host"].security_level = "None"
    /\ sent["host"] = 1
    /\ command_wire # NoneOpt
    /\ command_wire[1].command_type = AuthSession
    /\ chan["host"].mac_chaining_value # ZeroChain

\* C10: what a call does to the host's counter: command_with_mac,
\* authenticate_session and encrypt_command leave it as it is;
\* verify_response_mac adds 1 when it returns Ok and leaves it as it is when it
\* fails; decrypt_response adds 1 when it returns Ok, leaves it when the
\* session ID or the R-MAC is rejected, and otherwise does the one or the
\* other; finish_authenticate_session sets it to 1 when it returns Ok and
\* leaves it when it fails; drop leaves it.
C10_HostCounter ==
    [][last'.side = "host" =>
          LET before == chan["host"].counter
              after == chan'["host"].counter
              result == last'.result
          IN  CASE last'.op \in SendOps -> after = before
                [] last'.op = "verify_response_mac" ->
                     after = IF result = "Ok" THEN before + 1 ELSE before
                [] last'.op = "decrypt_response" ->
                     /\ result = "Ok" => after = before + 1
                     /\ result \in {"MismatchError", "VerifyFailed", "panic"}
                            => after = before
                     /\ after \in {before, before + 1}
                [] last'.op = "finish_authenticate_session" ->
                     after = IF result = "Ok" THEN 1 ELSE before
                [] OTHER -> after = before]_vars

\* The host has sent the AuthSession command and a session command, and has
\* just verified the response to the latter
C10_Witness ==
    /\ last.side = "host"
    /\ last.op = "verify_response_mac"
    /\ last.result = "Ok"
    /\ chan["host"].security_level = "Authenticated"
    /\ chan["host"].counter = 2
    /\ advances["host"] = 1
    /\ sent["host"] = 2
    /\ sent["card"] = 1

\* The methods of the host that accept a response
AcceptOps == {"verify_response_mac", "decrypt_response"}

\* C11 as the specification states it: the host accepts one response for each
\* command it emitted, so directly after it accepted a response, with no
\* command sent in between, it accepts no response: the one it just accepted
\* is rejected when it is presented again.
C11_AsStated ==
    [][(/\ last.side = "host" /\ last.op \in AcceptOps /\ last.result = "Ok"
        /\ last'.side = "host" /\ last'.op \in AcceptOps)
           => last'.result # "Ok"]_vars

\* The host has emitted the AuthSession command and one session command, the
\* card has emitted one response, and the host has accepted it twice
C11_ReplayAccepted ==
    /\ last.side = "host"
    /\ last.op = "verify_response_mac"
    /\ last.result = "Ok"
    /\ sent["host"] = 2
    /\ sent["card"] = 1
    /\ advances["host"] = 2
    /\ chan["host"].counter = 3
    /\ chan["card"].counter = 2

\* The host has completed the handshake or an exchange: its last call accepted
\* the card's response, and no command is on its way
ExchangeComplete ==
    \/ After("finish_authenticate_session")
    \/ After("decrypt_response")

\* C12: the two channels of a pair advance in lockstep.  After the handshake and
\* k complete exchanges (k responses emitted by the card and accepted by the
\* host) both channels are Authenticated, both counters are 1 + k, and both
\* chaining values are the same: the tag of the last command sent.
C12_Lockstep ==
    ExchangeComplete =>
        /\ chan["host"].security_level = "Authenticated"
        /\ chan["card"].security_level = "Authenticated"
        /\ chan["host"].counter = 1 + sent["card"]
        /\ chan["card"].counter = 1 + sent["card"]
        /\ chan["host"].mac_chaining_value = chan["card"].mac_chaining_value
        /\ command_wire[1].mac = Some(Mac_from(chan["host"].mac_chaining_value))

\* Two exchanges are complete: both counters are 3
C12_Witness ==
    /\ After("decrypt_response")
    /\ sent["card"] = 2
    /\ chan["host"].counter = 3
    /\ chan["card"].counter = 3
    /\ Len(chan["card"].mac_chaining_value) = 3

\* The commands the host has encrypted after the handshake (the first command
\* it MACed is the AuthSession command)
CommandsEncrypted == sent["host"] - 1

\* The last of the commands the host encrypted has been decrypted by the card
AllDecrypted ==
    \/ After("decrypt_command")
    \/ After("encrypt_response")
    \/ After("decrypt_response")

\* C13 as the specification states it: when n >= 1 commands have each been
\* encrypted on the host and decrypted on the card, the counter of each side
\* is 1 + n - 1, that is n
C13_AsStated ==
    (AllDecrypted /\ CommandsEncrypted >= 1) =>
        /\ chan["host"].counter = CommandsEncrypted
        /\ chan["card"].counter = CommandsEncrypted

\* C13: the counters count responses, not commands.  While both channels are
\* Authenticated the counter of the card is 1 + the responses it has emitted,
\* and the counter of the host is 1 + the responses it has accepted: the
\* same number, less the response that is on its way.  Encrypting and
\* decrypting a command changes neither counter, so after n commands the
\* counters are n only if exactly n - 1 of them have been answered.
C13_CountersCountResponses ==
    (/\ chan["host"].security_level = "Authenticated"
     /\ chan["card"].security_level = "Authenticated") =>
        /\ chan["card"].counter = 1 + sent["card"]
        /\ chan["host"].counter =
              1 + sent["card"] - (IF After("encrypt_response") THEN 1 ELSE 0)
        /\ sent["card"] <= CommandsEncrypted

\* Three commands encrypted and decrypted, one of them not answered and the
\* last not yet answered: both counters are 2, not 3
C13_Witness ==
    /\ After("decrypt_command")
    /\ CommandsEncrypted = 3
    /\ sent["card"] = 1
    /\ chan["host"].counter = 2
    /\ chan["card"].counter = 2

\* The host may encrypt a command: the handshake or an exchange is complete,
\* or the card has decrypted a command and does not answer it
HostMaySend == ExchangeComplete \/ After("decrypt_command")

\* The card may encrypt a response: it has decrypted a command
CardMayRespond == After("decrypt_command")

\* decrypt_command on the card, applied to what encrypt_command on the host
\* made of the command m, returns m and leaves both channels Authenticated
CommandRoundTrip(m) ==
    LET e == encrypt_command(chan["host"], m[1], m[2])
    IN  e.result = "Ok" =>
            \A garble \in Garbles :
                LET d == decrypt_command(chan["card"], e.out[1], garble)
                IN  /\ d.result = "Ok"
                    /\ d.inner = Some(m)
                    /\ e.ch.security_level = "Authenticated"
                    /\ d.ch.security_level = "Authenticated"

\* decrypt_response on the host, applied to what encrypt_response on the card
\* made of the response m, returns m and leaves both channels Authenticated
ResponseRoundTrip(m) ==
    LET e == encrypt_response(chan["card"], m[1], m[2])
    IN  e.result = "Ok" =>
            \A garble \in Garbles :
                LET d == decrypt_response(chan["host"], e.out[1], garble)
                IN  /\ d.result = "Ok"
                    /\ d.inner = Some(m)
                    /\ e.ch.security_level = "Authenticated"
                    /\ d.ch.security_level = "Authenticated"

\* The responses a card may encrypt to some command
AllExchangeResponses == UNION {ExchangeResponses(c) : c \in ExchangeCommands}

TagChain(tag) == SubSeq(tag, 1, Len(tag) - 1)

\* C15: the R-MAC of a response is bound to the C-MAC of the command it
\* answers.  The card computes the R-MAC over its chaining value, which is the
\* tag of the command it verified last.  When the Authenticated host receives
\* the response, it accepts the R-MAC (and counts the response) if its own
\* chaining value is the one the R-MAC was computed over; if the host has MACed
\* another command in between, the call returns VerifyFailed and the host
\* channel is Terminated.
C15_RmacBoundToCmac ==
    [][/\ (/\ last'.side = "card"
           /\ last'.op = "encrypt_response"
           /\ last'.result = "Ok")
          => TagChain(response_wire'[1].mac[1]) = chan["card"].mac_chaining_value
       /\ (/\ last'.side = "host"
           /\ last'.op \in AcceptOps
           /\ chan["host"].security_level = "Authenticated"
           /\ response_wire # NoneOpt)
          => IF TagChain(response_wire[1].mac[1]) = chan["host"].mac_chaining_value
             THEN /\ last'.result \in {"Ok", "ProtocolError"}
                  /\ chan'["host"].counter = chan["host"].counter + 1
             ELSE /\ last'.result = "VerifyFailed"
                  /\ chan'["host"].security_level = "Terminated"
                  /\ chan'["host"].counter = chan["host"].counter]_vars

\* The host has encrypted two commands, the card has answered the first, and
\* the host has rejected that response
C15_Witness ==
    /\ last.side = "host"
    /\ last.op \in AcceptOps
    /\ last.result = "VerifyFailed"
    /\ chan["host"].security_level = "Terminated"
    /\ chan["card"].security_level = "Authenticated"
    /\ sent["host"] = chan["host"].counter + 2
    /\ sent["card"] = chan["host"].counter
    /\ response_wire # NoneOpt
    /\ command_wire # NoneOpt
    /\ TagChain(command_wire[1].mac[1]) = TagChain(response_wire[1].mac[1])

\* The commands the host has emitted and whose responses it has not accepted:
\* an established host has emitted as many MACed commands as its counter says
\* (the AuthSession command and counter - 1 answered session commands), every
\* command it emits adds one to the first number and every response it
\* accepts adds one to the second
Outstanding == sent["host"] - chan["host"].counter

\* C16 as the specification states it: at most one command is outstanding on
\* a channel.  While a command the host emitted has not been answered,
\* encrypt_command does not emit another one.
C16_AsStated ==
    [][(/\ chan["host"].security_level = "Authenticated"
        /\ Outstanding >= 1
        /\ last'.side = "host"
        /\ last'.op = "encrypt_command")
          => last'.result # "Ok"]_vars

\* Two commands are outstanding: the host has emitted a second command and has
\* accepted or rejected no response since it emitted the first
C16_TwoOutstanding ==
    /\ chan["host"].security_level = "Authenticated"
    /\ After("encrypt_command")
    /\ last.side = "host"
    /\ Outstanding = 2
    /\ advances["host"] = 0
    /\ command_wire # NoneOpt

\* C20 as the specification states it: a channel MACs at most
\* MAX_COMMANDS_PER_SESSION commands under one set of session keys (every
\* MACed command the host emits is one successful call of command_with_mac)
C20_AsStated == sent["host"] <= MAX_COMMANDS_PER_SESSION

\* The host has MACed MAX_COMMANDS_PER_SESSION + 1 session commands, the
\* AuthSession command not counted, and its channel is Authenticated with a
\* counter below the limit: it may MAC more
C20_OverLimit ==
    /\ sent["host"] - 1 = MAX_COMMANDS_PER_SESSION + 1
    /\ chan["host"].security_level = "Authenticated"
    /\ chan["host"].counter = MAX_COMMANDS_PER_SESSION - 1
    /\ ~KeysZeroized(chan["host"])
    /\ After("encrypt_command")

\* C17 as the specification states it: every failure is fatal for the channel
\* that produced it.  Whenever a call on a channel returns an error, the
\* channel is Terminated and its keys are zeroed when the call returns.
C17_AsStated ==
    [][(/\ last'.side \in Sides
        /\ last'.result \notin {"Ok", "panic"})
          => /\ chan'[last'.side].security_level = "Terminated"
             /\ KeysZeroized(chan'[last'.side])]_vars

\* decrypt_response has verified the R-MAC of a response and counted it, has
\* failed to parse the decrypted payload and returned ProtocolError, and the
\* host channel is Authenticated with its keys
C17_ErrorKeepsOpen ==
    /\ last.side = "host"
    /\ last.op = "decrypt_response"
    /\ last.result = "ProtocolError"
    /\ chan["host"].security_level = "Authenticated"
    /\ ~KeysZeroized(chan["host"])
    /\ advances["host"] = 1
    /\ chan["host"].counter = 2

\* C18: finish_authenticate_session, given a response with empty data, sets
\* the security level to Authenticated and the counter to 1 and returns Ok;
\* given a response with data it returns ProtocolError, leaves the channel
\* Terminated with its keys zeroed, and leaves the counter as it was.
C18_FinishAuthenticateSession ==
    \A response \in ResponseInputs :
        LET r == finish_authenticate_session(chan["host"], response)
        IN  IF DataLen(response.data) = 0
            THEN /\ r.result = "Ok"
                 /\ r.ch.security_level = "Authenticated"
                 /\ r.ch.counter = 1
            ELSE /\ Rejected(r, "ProtocolError")
                 /\ r.ch.counter = chan["host"].counter

\* The host has sent its AuthSession command and has been given a response
\* with data: the call has failed and the counter is still 0
C18_Witness ==
    /\ last.side = "host"
    /\ last.op = "finish_authenticate_session"
    /\ last.result = "ProtocolError"
    /\ chan["host"].security_level = "Terminated"
    /\ KeysZeroized(chan["host"])
    /\ chan["host"].counter = 0
    /\ sent["host"] = 1
    /\ response_wire # NoneOpt

\* The C-MAC that ch computes for command c
ExpectedCmac(ch, c) ==
    Mac_from(CMAC(ch.mac_key, ch.mac_chaining_value, c.command_type,
                  U16(MessageLen(c)), ch.id, c.data))

\* C19: a card channel that has authenticated no session becomes Authenticated
\* only through a command whose data is CRYPTOGRAM_SIZE bytes long, is the
\* host cryptogram the card derives, and whose C-MAC verifies; it then has
\* counter 1 and returns an empty Success(AuthSession) response.  Data of
\* another length gives ProtocolError, another cryptogram or another C-MAC
\* gives VerifyFailed, and each of these failures leaves the card Terminated.
\* The card is never Authenticated by a host whose keys derive from another
\* auth key.
C19_DeviceAuthentication ==
    /\ (chan["card"].security_level = "None"
         /\ chan["card"].mac_chaining_value = ZeroChain) =>
          \A command \in CommandInputs :
              LET card == chan["card"]
                  r == verify_authenticate_session(card, command)
                  authentic ==
                      /\ DataLen(command.data) = CRYPTOGRAM_SIZE
                      /\ command.data = host_cryptogram(card)
                      /\ command.session_id = Some(card.id)
                      /\ command.mac = Some(ExpectedCmac(card, command))
              IN  /\ r.ch.security_level = "Authenticated" <=> authentic
                  /\ authentic =>
                        /\ r.result = "Ok"
                        /\ r.ch.counter = 1
                        /\ r.out = Some(ResponseMessage_success(AuthSession, Plain(0)))
                  /\ DataLen(command.data) # CRYPTOGRAM_SIZE =>
                        Rejected(r, "ProtocolError")
                  /\ (/\ DataLen(command.data) = CRYPTOGRAM_SIZE
                      /\ command.data # host_cryptogram(card)) =>
                        Rejected(r, "VerifyFailed")
                  /\ (/\ DataLen(command.data) = CRYPTOGRAM_SIZE
                      /\ command.data = host_cryptogram(card)
                      /\ command.session_id = Some(card.id)
                      /\ command.mac # NoneOpt
                      /\ command.mac # Some(ExpectedCmac(card, command))) =>
                        Rejected(r, "VerifyFailed")
    /\ (chan["card"].security_level = "None"
         /\ chan["card"].mac_chaining_value = ZeroChain) =>
          \A auth_key \in AuthKeys :
              LET host == SecureChannel_new(CHANNEL_ID, auth_key)
                  command == authenticate_session(host).out[1]
                  r == verify_authenticate_session(chan["card"], command)
              IN  host.mac_key # chan["card"].mac_key =>
                      Rejected(r, "VerifyFailed")
    /\ chan["card"].security_level = "Authenticated" =>
          chan["host"].mac_key \in {ZeroKey, chan["card"].mac_key}

\* The card has verified the AuthSession command of the host, is Authenticated
\* with counter 1 and has returned the empty response
C19_Witness ==
    /\ last.side = "card"
    /\ last.op = "verify_authenticate_session"
    /\ last.result = "Ok"
    /\ chan["card"].security_level = "Authenticated"
    /\ chan["card"].counter = 1
    /\ response_wire = Some(ResponseMessage_success(AuthSession, Plain(0)))
    /\ command_wire[1].data = host_cryptogram(chan["card"])

\* C21: decrypt_response returns a plaintext only for a response whose R-MAC
\* verify_response_mac has accepted on this channel; when the verification
\* fails it returns that error and no plaintext.  Every response it returns
\* carries the session ID of the encrypted response, which is the channel's.
C21_VerifyBeforeDecrypt ==
    chan["host"].security_level = "Authenticated" =>
        \A response \in ResponseInputs, garble \in Garbles :
            LET host == chan["host"]
                r == decrypt_response(host, response, garble)
                v == verify_response_mac(host, response)
                m == DecryptedResponse(host, response, garble)
            IN  /\ r.inner # NoneOpt =>
                      /\ v.result = "Ok"
                      /\ response.session_id = Some(host.id)
                      /\ response.mac = Some(ExpectedRmac(host, response))
                /\ v.result # "Ok" =>
                      /\ r.result = v.result
                      /\ r.inner = NoneOpt
                      /\ m = NoneOpt
                /\ m # NoneOpt <=> r.result = "Ok"
                /\ m # NoneOpt =>
                      /\ m[1].session_id = response.session_id
                      /\ m[1].session_id = Some(host.id)
                      /\ m[1].data = Plain(r.inner[1][2])

\* The host has decrypted a response of the card and returned its plaintext
C21_Witness ==
    /\ last.side = "host"
    /\ last.op = "decrypt_response"
    /\ last.result = "Ok"
    /\ last.inner = Some(<<Success(Echo), 1>>)
    /\ response_wire # NoneOpt
    /\ response_wire[1].session_id = Some(chan["host"].id)
    /\ chan["host"].security_level = "Authenticated"

\* The methods that compute the MAC of a command: on the host command_with_mac
\* and its callers, on the card verify_command_mac and its callers
CmacOps ==
    [host |-> {"command_with_mac", "authenticate_session", "encrypt_command"},
     card |-> {"verify_command_mac", "verify_authenticate_session", "decrypt_command"}]

\* C22: the chaining value of a channel is written only by the computation of
\* a command MAC: by command_with_mac on the host and by a verify_command_mac
\* on the card that accepted the C-MAC.  verify_response_mac and
\* decrypt_response, whether they succeed or fail, and response_with_mac and
\* encrypt_response leave it as it was.
C22_ResponsesKeepChain ==
    [][\A side \in Sides :
          chan'[side].mac_chaining_value # chan[side].mac_chaining_value
             => /\ last'.side = side
                /\ last'.op \in CmacOps[side]
                /\ side = "card" => last'.result # "VerifyFailed"
                /\ last'.op = "verify_command_mac" => last'.result = "Ok"]_vars

\* The card has emitted a response, and its chaining value is still the tag
\* of the command it verified, as is the host's after it accepted the response
C22_Witness ==
    /\ last.side = "host"
    /\ last.op \in AcceptOps
    /\ last.result = "Ok"
    /\ sent["card"] = 1
    /\ command_wire # NoneOpt
    /\ command_wire[1].command_type = SessionMessage
    /\ Some(chan["card"].mac_chaining_value) = command_wire[1].mac
    /\ Some(chan["host"].mac_chaining_value) = command_wire[1].mac

\* C23: the session ID of a channel is stable.  No call changes the id of a
\* channel, and every command that command_with_mac, authenticate_session or
\* encrypt_command emits carries the id the channel was created with; so does
\* a command of a channel created with another id.
C23_SessionIdStable ==
    [][/\ \A side \in Sides :
             /\ chan'[side].id = chan[side].id
             /\ chan'[side].id = CHANNEL_ID
       /\ (/\ last'.side = "host"
           /\ last'.op \in SendOps
           /\ last'.result = "Ok")
          => /\ command_wire' # NoneOpt
             /\ command_wire'[1].session_id = Some(CHANNEL_ID)
       /\ \A id \in {CHANNEL_ID, OTHER_ID}, m \in InnerCommands :
             LET ch == [chan["host"] EXCEPT !.id = id]
                 r == command_with_mac(ch, m[1], Plain(m[2]))
             IN  /\ r.ch.id = id
                 /\ r.out # NoneOpt => r.out[1].session_id = Some(id)]_vars

\* The host has emitted the AuthSession command and a session command, the
\* last one with the id the channel was created with
C23_Witness ==
    /\ last.side = "host"
    /\ last.op = "encrypt_command"
    /\ last.result = "Ok"
    /\ sent["host"] = 2
    /\ chan["host"].id = CHANNEL_ID
    /\ command_wire[1].session_id = Some(CHANNEL_ID)
    /\ command_wire[1].command_type = SessionMessage

\* The length field of a frame of three bytes or more is the number of bytes
\* that follow it
LengthFieldRight(bytes) == ReadU16(bytes[2], bytes[3]) + 3 = Len(bytes)

\* The call returned ProtocolError and no message
ParseRejected(r) == r.result = "ProtocolError" /\ r.value = NoneOpt

\* C24: CommandMessage::parse and ResponseMessage::parse reject with
\* ProtocolError, and return no message for, every frame shorter than three
\* bytes, every frame whose length field plus three is not its length, and
\* every frame whose code calls for a session ID or a MAC and that has no byte
\* for the session ID, a session ID byte of 16 or more, or fewer than
\* MAC_SIZE bytes after the session ID.
C24_ParseRejectsMalformed ==
    LET c == CommandMessage_parse(frame)
        r == ResponseMessage_parse(frame)
        after == Len(frame) - 3
    IN  IF Len(frame) < 3 THEN ParseRejected(c) /\ ParseRejected(r)
        ELSE IF ~LengthFieldRight(frame) THEN ParseRejected(c) /\ ParseRejected(r)
        ELSE /\ (/\ frame[1] \in {AuthSession, SessionMessage}
                 /\ \/ after = 0
                    \/ frame[4] > MAX_SESSION_ID
                    \/ after - 1 < MAC_SIZE) => ParseRejected(c)
             /\ (/\ has_session_id(frame[1])
                 /\ \/ after = 0
                    \/ frame[4] > MAX_SESSION_ID) => ParseRejected(r)
             /\ (/\ has_rmac(frame[1])
                 /\ after - 1 < MAC_SIZE) => ParseRejected(r)

\* A SessionMessage command frame with a right length field, a session ID
\* byte of 16 and a MAC has been received and rejected
C24_Witness ==
    /\ last.op = "CommandMessage::parse"
    /\ message.result = "ProtocolError"
    /\ message.value = NoneOpt
    /\ Len(frame) = 3 + 1 + MAC_SIZE
    /\ LengthFieldRight(frame)
    /\ frame[1] = SessionMessage
    /\ frame[4] = MAX_SESSION_ID + 1

\* The last step serialized a message and this step parses the frame
IntoThenParse ==
    \/ last.op = "CommandMessage::into" /\ last'.op = "CommandMessage::parse"
    \/ last.op = "ResponseMessage::into" /\ last'.op = "ResponseMessage::parse"

\* The parser returned the message that was serialized
ParsedBack == message'.result = "Ok" /\ message'.value = message.value

\* C25 as the specification states it: every message a constructor built is
\* serialized to bytes that parse back to a message with the same code,
\* session ID, data and MAC
C25_AsStated == [][IntoThenParse => ParsedBack]_vars

\* The message carries a session ID and a MAC exactly when the parser takes
\* them out of a frame with its code, and its length fits the length field
Canonical(of, m) ==
    /\ MessageLen(m) = U16(MessageLen(m))
    /\ IF of = "command"
       THEN /\ m.session_id # NoneOpt <=> m.command_type \in {AuthSession, SessionMessage}
            /\ m.mac # NoneOpt <=> m.command_type \in {AuthSession, SessionMessage}
       ELSE /\ m.session_id # NoneOpt <=> has_session_id(m.code)
            /\ m.mac # NoneOpt <=> has_rmac(m.code)

\* C25: the bytes a constructed message is serialized to parse back to the
\* same message exactly when the message carries what the parser expects for
\* its code: a command both session ID and MAC if its code is AuthSession or
\* SessionMessage and neither otherwise, a response a session ID if its code
\* is Success(CreateSession) or Success(SessionMessage) and a MAC if it is
\* Success(SessionMessage).  The constructors build the other messages too;
\* their bytes are rejected or parse to a different message.
C25_RoundTrip ==
    [][IntoThenParse => (ParsedBack <=> Canonical(message.of, message.value[1]))]_vars

\* A SessionMessage command with session ID, "Hello, world!" and MAC has been
\* serialized and parsed back
C25_Witness ==
    /\ last.op = "CommandMessage::parse"
    /\ message.result = "Ok"
    /\ message.value[1].command_type = SessionMessage
    /\ message.value[1].session_id = Some(MAX_SESSION_ID)
    /\ message.value[1].data = Raw(HelloWorld)
    /\ message.value[1].mac # NoneOpt
    /\ frame = CommandMessage_into(message.value[1])
    /\ Len(frame) = 3 + 1 + Len(HelloWorld) + MAC_SIZE

\* The command that the last operation returned
CommandHeld == Holds("command") /\ message.result = "Ok"

\* The session codes: the commands that the parser takes a session ID and a
\* MAC out of
SessionCodes == {AuthSession, SessionMessage}

\* C26 as the specification states it: every command the codec constructs or
\* parses has a session ID and a MAC exactly when its code is AuthSession or
\* SessionMessage
C26_AsStated ==
    CommandHeld =>
        /\ message.value[1].session_id # NoneOpt
               <=> message.value[1].command_type \in SessionCodes
        /\ message.value[1].mac # NoneOpt
               <=> message.value[1].command_type \in SessionCodes

\* C26: every command the parser returns has a session ID and a MAC exactly
\* when its code is AuthSession or SessionMessage.  The constructors do not
\* look at the code: a command built by new has neither, a command built by
\* new_with_mac has both, and the serialized frame holds, after the three
\* bytes of code and length, what the command has.
C26_ParsedCommands ==
    /\ CommandHeld /\ last.op = "CommandMessage::parse" =>
           /\ message.value[1].session_id # NoneOpt
                  <=> message.value[1].command_type \in SessionCodes
           /\ message.value[1].mac # NoneOpt
                  <=> message.value[1].command_type \in SessionCodes
    /\ CommandHeld /\ last.op = "CommandMessage::new" =>
           message.value[1].session_id = NoneOpt /\ message.value[1].mac = NoneOpt
    /\ CommandHeld /\ last.op = "CommandMessage::new_with_mac" =>
           message.value[1].session_id # NoneOpt /\ message.value[1].mac # NoneOpt
    /\ CommandHeld /\ last.op = "CommandMessage::into" =>
           Len(frame) = 3 + Len(message.value[1].data[3])
                          + (IF message.value[1].session_id # NoneOpt THEN 1 ELSE 0)
                          + (IF message.value[1].mac # NoneOpt THEN MAC_SIZE ELSE 0)

\* A received AuthSession frame has been parsed into a command with session
\* ID and MAC
C26_Witness ==
    /\ CommandHeld
    /\ last.op = "CommandMessage::parse"
    /\ frame[1] = AuthSession
    /\ message.value[1].session_id = Some(frame[4])
    /\ Len(message.value[1].mac[1]) = MAC_SIZE
    /\ Len(frame) = 3 + 1 + Len(message.value[1].data[3]) + MAC_SIZE

\* C27: no command frame is longer than MAX_MSG_SIZE bytes: every command
\* that a constructor accepted is serialized to at most 2048 bytes
C27_FrameWithinMax ==
    last.op = "CommandMessage::into" => Len(frame) <= MAX_MSG_SIZE

\* A SessionMessage command that new_with_mac accepted, with data of
\* MAX_MSG_SIZE bytes, has been serialized to a frame of 2060 bytes, and
\* command_with_mac emits a command as long for data of that length
C27_Witness ==
    /\ CommandHeld
    /\ last.op = "CommandMessage::into"
    /\ frame[1] = SessionMessage
    /\ Len(message.value[1].data[3]) = MAX_MSG_SIZE
    /\ Len(frame) = 3 + 1 + MAX_MSG_SIZE + MAC_SIZE
    /\ LET r == command_with_mac(chan["host"], SessionMessage, Plain(2))
       IN  /\ r.result = "Ok"
           /\ 3 + MessageLen(r.out[1]) = Len(frame)

\* C28: HsmErrorKind::from_response_message returns Some(kind) exactly when
\* the code of the response is no Success code and its payload is one byte,
\* and kind is then from_u8 of that byte; otherwise it returns None.  The
\* response that ResponseMessage::from builds for a named kind maps back to
\* that kind.
C28_DeviceErrorMapping ==
    [][
        /\ last'.op = "HsmErrorKind::from_response_message" =>
               (LET response == message.value[1]
                    error == /\ response.code \notin {Success(cmd) : cmd \in CommandCodes}
                             /\ Len(response.data[3]) = 1
                IN  /\ message'.value # NoneOpt <=> error
                    /\ error =>
                           message'.value = Some(HsmErrorKind_from_u8(response.data[3][1])))
        /\ (last'.op = "ResponseMessage::from" /\ message.value[1][1] \in NamedKinds) =>
               /\ message'.value[1].code = MemoryError
               /\ HsmErrorKind_from_response_message(message'.value[1]) = message.value
    ]_vars

\* from_response_message has returned the named kind that the response was
\* built from, and has returned None for a Success response with a payload
\* of one byte
C28_Witness ==
    /\ last.op = "HsmErrorKind::from_response_message"
    /\ message.value = Some(<<"ObjectExists">>)
    /\ HsmErrorKind_from_response_message(ResponseMessage_from(<<"ObjectExists">>))
           = message.value
    /\ HsmErrorKind_from_response_message(
           ResponseMessage_success(Echo, Raw(<<MAX_SESSION_ID>>))) = NoneOpt

\* The kinds that from_u8 returns: the named kinds, and Unknown { code } for
\* a code that is the tag of no named kind
Canonical_kind(kind) ==
    kind[1] = "Unknown" => kind[2] \notin {HsmErrorKind_to_u8(<<name>>) : name \in NamedKinds}

\* C29 as the specification states it: to_u8(from_u8(b)) = b for every byte
\* b, and from_u8(to_u8(k)) = k for every kind k, Unknown { code } with any
\* code included
C29_AsStated ==
    /\ last.op = "HsmErrorKind::from_u8" => HsmErrorKind_to_u8(message.value[1]) = frame[1]
    /\ last.op = "HsmErrorKind::to_u8" => HsmErrorKind_from_u8(frame[1]) = message.value[1]

\* C29: to_u8(from_u8(b)) = b for every byte b.  from_u8(to_u8(k)) = k for
\* every named kind k and for Unknown { code } with a code outside
\* 0x01..=0x11; Unknown { code } with a code in 0x01..=0x11 comes back as the
\* named kind of that tag.  The tags 0x01..=0x11 are read as 17 named kinds,
\* no two the same, and every byte is a tag that to_u8 returns.
C29_TagRoundTrip ==
    /\ last.op = "HsmErrorKind::from_u8" =>
           /\ HsmErrorKind_to_u8(message.value[1]) = frame[1]
           /\ message.value[1] \in HsmErrorKinds
           /\ Canonical_kind(message.value[1])
           /\ message.value[1][1] \in NamedKinds <=> frame[1] \in 1 .. 17
    /\ last.op = "HsmErrorKind::to_u8" =>
           /\ frame[1] \in Bytes
           /\ Canonical_kind(message.value[1]) <=>
                  HsmErrorKind_from_u8(frame[1]) = message.value[1]
           /\ ~Canonical_kind(message.value[1]) =>
                  /\ HsmErrorKind_from_u8(frame[1])[1] \in NamedKinds
                  /\ frame[1] = message.value[1][2]
    /\ Cardinality({HsmErrorKind_from_u8(tag) : tag \in 1 .. 17} \cap
                       {<<name>> : name \in NamedKinds}) = 17

\* The tag 0x11 has been read as ObjectExists, which is written as 0x11
C29_Witness ==
    /\ last.op = "HsmErrorKind::from_u8"
    /\ frame = <<17>>
    /\ message.value = Some(<<"ObjectExists">>)
    /\ HsmErrorKind_to_u8(message.value[1]) = 17

\* The session error kinds that become the same client error kind as `kind`
SameClientKind(kind) ==
    {k \in SessionErrorKinds : ClientErrorKind_from(k) = ClientErrorKind_from(kind)}

\* C30 as the specification states it: the conversion of a SessionError to
\* a ClientError keeps the kind apart from every other kind, and the
\* description is the same
C30_AsStated ==
    [][last'.op = "ClientError::from" =>
           /\ SameClientKind(message.value[1].kind) = {message.value[1].kind}
           /\ Error_description(message'.value[1]) = Error_description(message.value[1])
    ]_vars

\* The session error kinds that the conversion merges
MergedKinds ==
    {<<"ProtocolError">>, <<"CommandLimitExceeded">>, <<"MismatchError">>,
     <<"VerifyFailed">>}

\* C30: the conversion of a SessionError to a ClientError carries the
\* description over unchanged.  AuthFail, ClosedSessionError, CreateFailed,
\* ResponseError and DeviceError with its device kind become the client kind
\* of the same name, which no other session kind becomes; ProtocolError,
\* CommandLimitExceeded, MismatchError and VerifyFailed all become the client
\* kind ProtocolError.
C30_KindsMerged ==
    [][last'.op = "ClientError::from" =>
           (LET err == message.value[1]
                client == message'.value[1]
            IN  /\ Error_description(client) = Error_description(err)
                /\ err.kind \in MergedKinds =>
                       /\ client.kind = <<"ProtocolError">>
                       /\ SameClientKind(err.kind) = MergedKinds
                /\ err.kind \notin MergedKinds =>
                       /\ client.kind = err.kind
                       /\ SameClientKind(err.kind) = {err.kind})
    ]_vars

\* A VerifyFailed session error with a description has become a client
\* ProtocolError with that description
C30_Witness ==
    /\ last.op = "ClientError::from"
    /\ message.value[1].kind = <<"ProtocolError">>
    /\ message.value[1] = ClientError_from(Error_new(<<"VerifyFailed">>, Descriptions_text))
    /\ Error_description(message.value[1]) = Descriptions_text[1]

\* The host has emitted a command in this step
HostSent == last'.side = "host" /\ last'.op \in SendOps /\ last'.result = "Ok"

\* C36: C-MAC chaining.  A successful command_with_mac, called directly or by
\* authenticate_session or encrypt_command, computes the tag T under the S-MAC
\* key over the chaining value it found, the code, the length 1 + |data| + 8,
\* the session ID and the data, makes T the chaining value and emits a command
\* whose MAC is T truncated.  The length it MACs is the length field of the
\* command on the wire and the length that verify_command_mac MACs: a device
\* channel with the same key and the same chaining value accepts the command
\* and takes T as its chaining value, and one with another chaining value
\* returns VerifyFailed.
C36_CmacChaining ==
    [][HostSent =>
           (LET ch == chan["host"]
                command == command_wire'[1]
                T == CMAC(ch.mac_key, ch.mac_chaining_value, command.command_type,
                          1 + DataLen(command.data) + MAC_SIZE, ch.id, command.data)
                device == verify_command_mac(ch, command)
                behind == verify_command_mac(
                              [ch EXCEPT !.mac_chaining_value = Append(@, <<>>)], command)
            IN  /\ chan'["host"].mac_chaining_value = T
                /\ TagChain(T) = ch.mac_chaining_value
                /\ command.mac = Some(Mac_from(T))
                /\ command.session_id = Some(ch.id)
                /\ ReadU16(WriteU16(MessageLen(command))[1], WriteU16(MessageLen(command))[2])
                       = 1 + DataLen(command.data) + MAC_SIZE
                /\ device.result = "Ok"
                /\ device.ch.mac_chaining_value = T
                /\ behind.result = "VerifyFailed")
    ]_vars

\* The host has MACed the AuthSession command and then a session command,
\* whose tag is chained to the tag of the AuthSession command
C36_Witness ==
    /\ last.side = "host"
    /\ last.op = "encrypt_command"
    /\ last.result = "Ok"
    /\ cmacs["host"] = 2
    /\ Len(chan["host"].mac_chaining_value) = 2
    /\ command_wire[1].mac = Some(Mac_from(chan["host"].mac_chaining_value))
    /\ TagChain(chan["host"].mac_chaining_value)[1][2] = AuthSession


\* The counter a ciphertext was encrypted under: its ICV is the encryption of
\* that counter under the enc_key (compute_icv), whichever side encrypts
IcvCounter(m) == m.data[4]

\* The call `op` has just returned Ok
Did(op) == last'.op = op /\ last'.result = "Ok"

\* C37: within one exchange the same counter value derives the ICV in all four
\* steps.  The host encrypts the command under its counter and leaves the
\* counter alone; the card decrypts it under its own counter, which is the
\* same value, and leaves it alone; the card encrypts the response under that
\* value and then increments; the host decrypts the response under that value
\* and then increments.  The ICV is the same function of enc_key and counter
\* for commands and responses.
C37_SameIcvCounter ==
    [][(LET host == chan["host"]
            card == chan["card"]
        IN  /\ Did("encrypt_command") =>
                  /\ IcvCounter(command_wire'[1]) = host.counter
                  /\ command_wire'[1].data =
                        Aes128Cbc_encrypt(host.enc_key, card.counter,
                                          command_wire'[1].data[5],
                                          command_wire'[1].data[6])
                  /\ chan'["host"].counter = host.counter
            /\ last'.op = "decrypt_command" =>
                  /\ card.counter = IcvCounter(command_wire[1])
                  /\ chan'["card"].counter = card.counter
                  /\ last'.result = "Ok" <=>
                        CommandMessage_parse_ok(command_wire[1].data[5],
                                                command_wire[1].data[6])
                  /\ last'.result = "Ok" =>
                        last'.inner = Some(<<command_wire[1].data[5],
                                             command_wire[1].data[6]>>)
            /\ Did("encrypt_response") =>
                  /\ IcvCounter(response_wire'[1]) = IcvCounter(command_wire[1])
                  /\ response_wire'[1].data[3] = command_wire[1].data[3]
                  /\ chan'["card"].counter = IcvCounter(command_wire[1]) + 1
            /\ last'.op = "decrypt_response" =>
                  /\ host.counter = IcvCounter(response_wire[1])
                  /\ host.counter = IcvCounter(command_wire[1])
                  /\ last'.result = "Ok" <=>
                        ResponseMessage_parse_ok(response_wire[1].data[5],
                                                 response_wire[1].data[6])
                  /\ last'.result = "Ok" =>
                        /\ chan'["host"].counter = host.counter + 1
                        /\ last'.inner = Some(<<response_wire[1].data[5],
                                                 response_wire[1].data[6]>>))
    ]_vars

\* The second exchange is complete: command and response were both encrypted
\* under counter 2, and both counters are now 3
C37_Witness ==
    /\ After("decrypt_response")
    /\ IcvCounter(command_wire[1]) = 2
    /\ IcvCounter(response_wire[1]) = 2
    /\ chan["host"].counter = 3
    /\ chan["card"].counter = 3
    /\ last.inner # NoneOpt


\* The command as the host emitted it, with its data or its MAC altered
DataOrMacAltered(m) ==
    {[m EXCEPT !.data = IF DataLen(@) = 0 THEN Plain(1) ELSE Plain(0)]} \cup AlterMac(m)

\* The device rejects the command: verify_command_mac fails with VerifyFailed,
\* leaves the chaining value alone and the channel Terminated, and so does
\* decrypt_command on an Authenticated channel
DeviceRejects(ch, command) ==
    LET v == verify_command_mac(ch, command)
    IN  /\ v.result = "VerifyFailed"
        /\ v.ch.mac_chaining_value = ch.mac_chaining_value
        /\ v.ch.security_level = "Terminated"
        /\ ch.security_level = "Authenticated" =>
              \A garble \in Garbles : decrypt_command(ch, command, garble) = v

\* The methods of the device that accept a command
DeviceAcceptOps ==
    {"verify_command_mac", "decrypt_command", "verify_authenticate_session"}

\* The device has accepted the command the host emitted last: the call made
\* last is a call of the device that accepted a command, or the chaining value
\* of the device is the tag of that command
DeviceAccepted ==
    /\ command_wire # NoneOpt
    /\ \/ last.side = "card" /\ last.op \in DeviceAcceptOps /\ last.result = "Ok"
       \/ command_wire[1].mac = Some(Mac_from(chan["card"].mac_chaining_value))

DeviceVerifyOps == {"verify_command_mac", "decrypt_command"}

\* C38: the device rejects a replayed command and an altered command.  Once it
\* has accepted a command, the identical frame presented again fails with
\* VerifyFailed and leaves the device Terminated; a command whose data or MAC
\* was altered fails with VerifyFailed in every state of the device; and a
\* call of the device that fails with VerifyFailed leaves the chaining value
\* as it was.
C38_ReplayRejected ==
    [][(LET card == chan["card"]
        IN  /\ DeviceAccepted => DeviceRejects(card, command_wire[1])
            /\ command_wire # NoneOpt =>
                  \A command \in DataOrMacAltered(command_wire[1]) :
                      DeviceRejects(card, command)
            /\ (/\ DeviceAccepted
                 /\ last'.side = "card"
                 /\ last'.op \in DeviceVerifyOps
                 /\ last'.result # "panic") =>
                    /\ last'.result = "VerifyFailed"
                    /\ chan'["card"] = terminate(card)
            /\ (/\ last'.side = "card"
                 /\ last'.op \in DeviceVerifyOps
                 /\ last'.result = "VerifyFailed") =>
                    /\ chan'["card"].mac_chaining_value = card.mac_chaining_value
                    /\ chan'["card"].security_level = "Terminated")
    ]_vars

\* The device accepted the first session command with decrypt_command, was
\* given a command again, and failed with VerifyFailed: it is Terminated and
\* its chaining value is still the tag of the command it accepted
C38_Witness ==
    /\ last.side = "card"
    /\ last.op = "decrypt_command"
    /\ last.result = "VerifyFailed"
    /\ chan["card"].security_level = "Terminated"
    /\ command_wire[1].mac = Some(Mac_from(chan["card"].mac_chaining_value))
    /\ command_wire[1].command_type = SessionMessage
    /\ cmacs["card"] = 2


\* C39: a failed send does not desynchronise the channel.  Whenever
\* command_with_mac or encrypt_command returns an error, no command is emitted
\* and the mac_chaining_value and the counter of the channel are the same as
\* before the call.
C39_AsStated ==
    [][(/\ last'.side = "host"
        /\ last'.op \in {"command_with_mac", "encrypt_command"}
        /\ last'.result \notin {"Ok", "panic"})
          => /\ command_wire' = command_wire
             /\ chan'["host"].mac_chaining_value = chan["host"].mac_chaining_value
             /\ chan'["host"].counter = chan["host"].counter]_vars

\* encrypt_command has returned ProtocolError after the handshake: no command
\* was emitted, the host is Authenticated, and its chaining value is a tag the
\* card was never given, computed over a ciphertext longer than MAX_MSG_SIZE
C39_ChainAhead ==
    /\ last.side = "host"
    /\ last.op = "encrypt_command"
    /\ last.result = "ProtocolError"
    /\ chan["host"].security_level = "Authenticated"
    /\ chan["card"].security_level = "Authenticated"
    /\ sent["host"] = 1
    /\ cmacs["host"] = 2
    /\ command_wire[1].command_type = AuthSession
    /\ chan["card"].mac_chaining_value = TagChain(chan["host"].mac_chaining_value)
    /\ DataLen(chan["host"].mac_chaining_value[2][5]) > MAX_MSG_SIZE


\* The methods that are given what the peer sent
ReceiveOps == {"decrypt_response", "decrypt_command"}

\* C40: peer-supplied input never aborts the channel.  On an Authenticated
\* channel decrypt_response, for every ResponseMessage that
\* ResponseMessage::parse can produce, and decrypt_command, for every
\* CommandMessage that CommandMessage::parse can produce, return Ok or a typed
\* error: no assertion, unwrap or expect is reached.
C40_AsStated ==
    [][(/\ last'.side \in Sides
        /\ last'.op \in ReceiveOps
        /\ chan[last'.side].security_level = "Authenticated")
          => last'.result # "panic"]_vars

\* The host, Authenticated, has parsed a frame with the code of a CreateSession
\* response, which has a session ID and no MAC, and decrypt_response has
\* panicked on it
C40_MissingRmacPanics ==
    /\ last.side = "host"
    /\ last.op = "decrypt_response"
    /\ last.result = "panic"
    /\ chan["host"].security_level = "Authenticated"
    /\ Holds("ResponseMessage")
    /\ message.value[1].code = Success(CreateSession)
    /\ message.value[1].session_id = Some(chan["host"].id)
    /\ message.value[1].mac = NoneOpt
    /\ ResponseMessage_parse(frame) = ResultOk(message.value[1])


\* C35: get_pseudo_random rejects oversized requests before it touches the
\* session.  Asked for 2045 bytes or more it returns ProtocolError and sends
\* nothing: the channels, their counters and chaining values, and the store
\* are as they were.  Asked for 2044 bytes or fewer it sends exactly one
\* GetPseudoRandom command and returns the bytes of the response.
C35_OversizedRejected ==
    [][last'.op = "get_pseudo_random" =>
          (LET bytes == frame'[1]
           IN  /\ bytes >= 2045 =>
                     /\ last'.result = "ProtocolError"
                     /\ message'.value = NoneOpt
                     /\ UNCHANGED <<chan, command_wire, response_wire, sent, cmacs,
                                    advances, store>>
               /\ bytes <= 2044 =>
                     /\ last'.result = "Ok"
                     /\ message'.value = Some(bytes)
                     /\ sent'["host"] = sent["host"] + 1
                     /\ command_wire'[1].command_type = SessionMessage
                     /\ command_wire'[1].data[5] = CommandType_to_u8("GetPseudoRandom")
                     /\ command_wire'[1].mac =
                           Some(Mac_from(chan'["host"].mac_chaining_value))
                     /\ TagChain(chan'["host"].mac_chaining_value) =
                           chan["host"].mac_chaining_value
                     /\ chan'["host"].counter = chan["host"].counter + 1)
    ]_vars

\* The session has sent one command, for 2044 bytes, and then was asked for
\* 2045 bytes: the call failed and the command that went out last is still
\* the first one
C35_Witness ==
    /\ last.op = "get_pseudo_random"
    /\ last.result = "ProtocolError"
    /\ frame = <<2045>>
    /\ sent["host"] = 2
    /\ chan["host"].counter = 2
    /\ command_wire[1].data[5] = CommandType_to_u8("GetPseudoRandom")
    /\ command_wire[1].data[4] = 1


\* The opaque object in the slot of `id`, if any
Opaque(objs, id) == objs[<<id, "Opaque">>]

\* C31: an opaque object round-trips.  When put_opaque(id, label, domains,
\* capabilities, algorithm, bytes) succeeds it returns id, and the device
\* holds the bytes under id with the parameters given; a call that neither
\* puts nor deletes that object leaves it alone; and get_opaque(id) returns
\* exactly the bytes the device holds for id, so the bytes that were put last.
C31_OpaqueRoundTrip ==
    [][(LET id == frame'[1]
        IN  /\ (last'.op = "put_opaque" /\ last'.result = "Ok") =>
                  /\ message'.value = Some(id)
                  /\ Opaque(objects', id) =
                        Some(<<<<id, "Opaque", frame'[2], frame'[3], frame'[4], frame'[5],
                                 "Imported">>, frame'[6]>>)
                  /\ \A other \in Slots \ {<<id, "Opaque">>} :
                         objects'[other] = objects[other]
            /\ last'.op \notin {"put_opaque", "delete_object"} => objects' = objects
            /\ last'.op = "delete_object" =>
                  \A other \in Slots \ {frame'} : objects'[other] = objects[other]
            /\ last'.op = "get_opaque" =>
                  IF Opaque(objects, id) = NoneOpt
                  THEN last'.result = "ObjectNotFound" /\ message'.value = NoneOpt
                  ELSE last'.result = "Ok" /\ message'.value = Some(Opaque(objects, id)[1][2])
            /\ (/\ last.op = "put_opaque"
                /\ last.result = "Ok"
                /\ last'.op = "get_opaque"
                /\ frame[1] = id) =>
                   last'.result = "Ok" /\ message'.value = Some(frame[6]))
    ]_vars

\* "Hello, world!" was put under 100, then an object was put under 101, and
\* get_opaque(100) has returned "Hello, world!"
C31_Witness ==
    /\ last.op = "get_opaque"
    /\ last.result = "Ok"
    /\ frame = <<100>>
    /\ message.value = Some(HelloWorld)
    /\ Opaque(objects, 101) # NoneOpt
    /\ advances["host"] = 3


\* C34: the audit options read back what was written last, for writes of On
\* and Off.  A put of On or Off that succeeds stores the byte 0x01 or 0x00
\* under its tag (the force option, or the option of a command) and leaves the
\* other tags alone; no other call changes an option; get returns On for a
\* stored 0x01 and Off for a stored 0x00; so a get that follows the put of the
\* same tag returns the option that was put.
C34_AuditOptionsReadBack ==
    [][(/\ (/\ last'.op = "put_option"
            /\ last'.result = "Ok"
            /\ frame'[2] \in {"On", "Off"}) =>
                /\ options'[frame'[1]] = (IF frame'[2] = "On" THEN 1 ELSE 0)
                /\ \A tag \in OptionTags \ {frame'[1]} : options'[tag] = options[tag]
        /\ last'.op # "put_option" => options' = options
        /\ (last'.op = "get_option" /\ options[frame'[1]] \in {0, 1}) =>
                /\ last'.result = "Ok"
                /\ message'.value = Some(IF options[frame'[1]] = 1 THEN "On" ELSE "Off")
        /\ (/\ last.op = "put_option"
            /\ last.result = "Ok"
            /\ frame[2] \in {"On", "Off"}
            /\ last'.op = "get_option"
            /\ frame'[1] = frame[1]) =>
                /\ last'.result = "Ok"
                /\ message'.value = Some(frame[2]))
    ]_vars

\* After two other calls the option of Echo was read: it is On, as it was
\* put, and the force option is Off
C34_Witness ==
    /\ last.op = "get_option"
    /\ last.result = "Ok"
    /\ frame = << <<"command", Echo>> >>
    /\ message.value = Some("On")
    /\ options[<<"command", Echo>>] = 1
    /\ options[<<"force", 0>>] = 0
    /\ advances["host"] = 3


\* The methods that create a key, and the type and the origin of the key each
\* creates
KeyCreation == {"generate_asymmetric_key", "generate_wrap_key", "put_asymmetric_key"}

CreatedType(op) == IF op = "generate_wrap_key" THEN "WrapKey" ELSE "AsymmetricKey"

CreatedOrigin(op) == IF op = "put_asymmetric_key" THEN "Imported" ELSE "Generated"

\* What get_object_info reports of a key made by the method `op` from the
\* arguments `args` = <<id, label, domains, capabilities, algorithm>>
CreatedInfo(op, args) ==
    <<args[1], CreatedType(op), args[2], args[3], args[4], args[5], CreatedOrigin(op)>>

\* get_object_info has just returned what the device holds in the slot asked for
InfoReported ==
    IF objects[frame'] = NoneOpt
    THEN last'.result = "ObjectNotFound" /\ message'.value = NoneOpt
    ELSE last'.result = "Ok" /\ message'.value = Some(objects[frame'][1][1])

\* C33: key creation stores the metadata supplied.  When
\* generate_asymmetric_key, generate_wrap_key or put_asymmetric_key succeeds
\* for a slot it returns the ID given, and the device holds under (ID, type)
\* an object with exactly the ID, type, label, domains, capabilities and
\* algorithm given and the origin Generated, or Imported for a key that was
\* put; get_object_info reports what the device holds, so directly after the
\* creation it reports exactly that.
C33_KeyCreationMetadata ==
    [][(/\ (last'.op \in KeyCreation /\ last'.result = "Ok") =>
                /\ message'.value = Some(frame'[1])
                /\ objects'[<<frame'[1], CreatedType(last'.op)>>] # NoneOpt
                /\ objects'[<<frame'[1], CreatedType(last'.op)>>][1][1] =
                      CreatedInfo(last'.op, frame')
                /\ \A slot \in Slots \ {<<frame'[1], CreatedType(last'.op)>>} :
                       objects'[slot] = objects[slot]
        /\ last'.op = "get_object_info" => (InfoReported /\ objects' = objects)
        /\ (/\ last.op \in KeyCreation
            /\ last.result = "Ok"
            /\ last'.op = "get_object_info"
            /\ frame' = <<frame[1], CreatedType(last.op)>>) =>
                /\ last'.result = "Ok"
                /\ message'.value = Some(CreatedInfo(last.op, frame)))
    ]_vars

\* A wrap key was generated under 100 and get_object_info(100, WrapKey) has
\* reported it, with the capabilities given and not the delegated ones
C33_Witness ==
    /\ last.op = "get_object_info"
    /\ last.result = "Ok"
    /\ frame = <<100, "WrapKey">>
    /\ message.value =
          Some(<<100, "WrapKey", "yubihsm.rs test key", {1},
                 {"EXPORT_WRAPPED", "IMPORT_WRAPPED"}, "AES128_CCM_WRAP", "Generated">>)
    /\ objects[<<101, "AsymmetricKey">>] # NoneOpt
    /\ objects[<<101, "AsymmetricKey">>][1][1][7] = "Imported"


\* The object <<info, data>> inside a wrapped object
WrappedObject(w) == w[3]

\* C32: an object exported under wrap and imported again keeps its metadata.
\* export_wrapped(wrap key, type, id) succeeds only for an object the device
\* holds with EXPORT_UNDER_WRAP, wraps that object and changes nothing;
\* delete_object(id, type) removes the object; import_wrapped(wrap key, data)
\* returns the type and ID of the wrapped object and stores it with the ID,
\* type, label, domains, capabilities and algorithm it had when it was
\* exported, and the origin WrappedGenerated for a generated object
\* (WrappedImported for one that was put); get_object_info then reports that.
C32_WrappedRoundTrip ==
    [][(LET slot == <<frame'[3], frame'[2]>>
            object == WrappedObject(wrapped[1])
            info == object[1]
        IN  /\ (last'.op = "export_wrapped" /\ last'.result = "Ok") =>
                  /\ objects[slot] # NoneOpt
                  /\ "EXPORT_UNDER_WRAP" \in objects[slot][1][1][5]
                  /\ objects[slot][1][1][7] \in {"Generated", "Imported",
                                                "WrappedGenerated", "WrappedImported"}
                  /\ wrapped' # NoneOpt
                  /\ WrappedObject(wrapped'[1]) = objects[slot][1]
                  /\ message'.value = wrapped'
                  /\ objects' = objects
            /\ last'.op # "export_wrapped" => wrapped' = wrapped
            /\ (last'.op = "delete_object" /\ last'.result = "Ok") =>
                  objects'[frame'] = NoneOpt
            /\ (last'.op = "import_wrapped" /\ last'.result = "Ok") =>
                  /\ message'.value = Some(<<info[2], info[1]>>)
                  /\ objects'[<<info[1], info[2]>>] =
                        Some(<<<<info[1], info[2], info[3], info[4], info[5], info[6],
                                 IF info[7] \in {"Generated", "WrappedGenerated"}
                                 THEN "WrappedGenerated" ELSE "WrappedImported">>,
                               object[2]>>)
                  /\ \A other \in Slots \ {<<info[1], info[2]>>} :
                         objects'[other] = objects[other]
            /\ (/\ last.op = "import_wrapped"
                /\ last.result = "Ok"
                /\ last'.op = "get_object_info"
                /\ frame' = <<info[1], info[2]>>) =>
                   /\ last'.result = "Ok"
                   /\ message'.value[1][7] \in {"WrappedGenerated", "WrappedImported"}
                   /\ \A i \in 1 .. 6 : message'.value[1][i] = info[i])
    ]_vars

\* As in wrap_key_test: a wrap key and an asymmetric key with EXPORT_UNDER_WRAP
\* were generated, the key was exported, deleted and imported, and
\* get_object_info has reported it with the metadata it was generated with and
\* the origin WrappedGenerated
C32_Witness ==
    /\ last.op = "get_object_info"
    /\ last.result = "Ok"
    /\ advances["host"] = 6
    /\ frame = <<101, "AsymmetricKey">>
    /\ message.value =
          Some(<<101, "AsymmetricKey", "yubihsm.rs exported test key", {1},
                 {"ASYMMETRIC_SIGN_EDDSA", "EXPORT_UNDER_WRAP"}, "EC_ED25519",
                 "WrappedGenerated">>)
    /\ wrapped # NoneOpt
    /\ WrappedObject(wrapped[1])[1][7] = "Generated"
    /\ objects[<<100, "WrapKey">>] # NoneOpt

====
